---- MODULE Spec2Model ----
(***************************************************************************)
(* Model of the marker-driven spreadsheet parser of activity-rule-editor:  *)
(* backend/services/excel_parser.py (parse_file, parse_sheet,              *)
(* parse_section_block and its collectors) and the /api/parse handler of   *)
(* backend/api/main.py.                                                    *)
(*                                                                         *)
(* Representation.  A text is a sequence of characters (one-character      *)
(* strings; "CR", "LF" and "TAB" stand for the control characters and the  *)
(* tokens "U5956" ... for CJK characters).  As a cell value, None and the   *)
(* empty string are both the empty sequence: clean_text maps both to ""    *)
(* and has_region_marker treats them alike.  A cell carries its raw        *)
(* value, its horizontal alignment and its bold flag; italic, font colour  *)
(* and the percent number format are copied through by the code and are    *)
(* not modelled.  A worksheet is [max_row, max_column, cells, merged]; a   *)
(* merged child cell holds no value, as in openpyxl.                       *)
(***************************************************************************)
EXTENDS Naturals, Sequences, FiniteSets, TLC

VARIABLES
  \* parse_file / parse_excel
  wb,             \* the workbook: a sequence of [name, ws]
  sheet,          \* the sheet argument: None or a text
  fpc,            \* position in parse_file / parse_excel
  fi,             \* index of the sheet the loop of parse_file is at
  sheets_result,  \* the dict sheets_result, in insertion order: <<name, doc>>
  skipped,        \* the list skipped
  raised,         \* the exception raised by parse_file, or Nothing
  returned,       \* the value parse_file returned, or Nothing
  response,       \* the JSON response of parse_excel, or Nothing
  \* parse_sheet
  ws,             \* the worksheet being parsed
  merge_idx,      \* build_merge_index(ws)
  regions,        \* find_regions(ws, merge_idx)
  ri,             \* index of the region the loop of parse_sheet is at
  titles,         \* scan_titles(ws, region, merge_idx)
  ti,             \* index of the title the loop of parse_sheet is at
  blocks,         \* the blocks of the current region
  pages,          \* the pages emitted so far
  pc,             \* position in parse_sheet
  \* parse_section_block
  c1, c2, r_start, r_end,  \* its arguments
  r,              \* the scanning cursor
  sections,       \* the sections collected so far
  block_free_paragraphs,   \* the fallback paragraphs collected so far
  step,           \* the branch the last iteration took and the row it started at
  calls,          \* the row ranges parse_section_block was called with, per region
  trail           \* the iterations of the scanning loop in the current call

fvars == <<wb, sheet, fpc, fi, sheets_result, skipped, raised, returned, response>>
svars == <<ws, merge_idx, regions, ri, titles, ti, blocks, pages, pc>>
bvars == <<c1, c2, r_start, r_end, r, sections, block_free_paragraphs, step, calls, trail>>
vars == <<fvars, svars, bvars>>

\* None where the code holds a str or None; NoAlign for a cell without alignment;
\* Nothing where it holds an object or None (a value v is then <<v>>)
None == <<"None">>
NoAlign == "None"
Nothing == <<>>

(***************************************************************************)
(* Bounds of the model.                                                    *)
(***************************************************************************)
MaxBlockRows == 3   \* content rows below the TITLE- row of a generated sheet
MaxCol == 4         \* columns of a generated sheet
MaxSheets == 2      \* sheets of a generated workbook
MaxRegionRows == 3  \* rows of a generated region sheet
MaxCodeLen == 4     \* characters of a generated region code
MaxTableRows == 3   \* rows below the TABLE- row of a generated table sheet
MaxItemRows == 3    \* content rows of a generated item sheet

(***************************************************************************)
(* Text: the str operations the parser uses.                               *)
(***************************************************************************)
REGION_ == <<"R", "E", "G", "I", "O", "N", "-">>
TITLE_ == <<"T", "I", "T", "L", "E", "-">>
RULES_ == <<"R", "U", "L", "E", "S", "-">>
RANK_ == <<"R", "A", "N", "K", "-">>
RINK_ == <<"R", "I", "N", "K", "-">>
TABLE_ == <<"T", "A", "B", "L", "E", "-">>

Whitespace == {" ", "TAB", "CR", "LF"}

\* s.startswith(p)
startswith(s, p) == Len(s) >= Len(p) /\ SubSeq(s, 1, Len(p)) = p

\* s.endswith(p)
endswith(s, p) == Len(s) >= Len(p) /\ SubSeq(s, Len(s) - Len(p) + 1, Len(s)) = p

RECURSIVE lstrip(_)
lstrip(s) == IF s # <<>> /\ Head(s) \in Whitespace THEN lstrip(Tail(s)) ELSE s

RECURSIVE rstrip(_)
rstrip(s) ==
  IF s # <<>> /\ s[Len(s)] \in Whitespace THEN rstrip(SubSeq(s, 1, Len(s) - 1)) ELSE s

\* s.strip()
strip(s) == rstrip(lstrip(s))

\* s.replace("\r\n", "\n").replace("\r", "\n")
RECURSIVE normalize_newlines(_)
normalize_newlines(s) ==
  IF s = <<>> THEN <<>>
  ELSE IF Head(s) = "CR"
       THEN IF Len(s) >= 2 /\ s[2] = "LF"
            THEN <<"LF">> \o normalize_newlines(SubSeq(s, 3, Len(s)))
            ELSE <<"LF">> \o normalize_newlines(Tail(s))
       ELSE <<Head(s)>> \o normalize_newlines(Tail(s))

\* p in s
RECURSIVE contains(_, _)
contains(s, p) ==
  IF Len(s) < Len(p) THEN FALSE
  ELSE startswith(s, p) \/ contains(Tail(s), p)

\* s.split(p)[-1]: what follows the last occurrence of p, or s when there is none
RECURSIVE split_last(_, _)
split_last(s, p) ==
  IF ~contains(s, p) THEN s
  ELSE IF startswith(s, p) THEN split_last(SubSeq(s, Len(p) + 1, Len(s)), p)
       ELSE split_last(Tail(s), p)

\* s.split(p, 1)[-1]: what follows the first occurrence of p, or s when there is none
RECURSIVE split_first(_, _)
split_first(s, p) ==
  IF ~contains(s, p) THEN s
  ELSE IF startswith(s, p) THEN SubSeq(s, Len(p) + 1, Len(s))
       ELSE split_first(Tail(s), p)

LowerMap ==
  [A |-> "a", B |-> "b", C |-> "c", D |-> "d", E |-> "e", F |-> "f", G |-> "g",
   H |-> "h", I |-> "i", J |-> "j", K |-> "k", L |-> "l", M |-> "m", N |-> "n",
   O |-> "o", P |-> "p", Q |-> "q", R |-> "r", S |-> "s", T |-> "t", U |-> "u",
   V |-> "v", W |-> "w", X |-> "x", Y |-> "y", Z |-> "z"]

\* s.lower()
lower(s) == [i \in 1..Len(s) |-> IF s[i] \in DOMAIN LowerMap THEN LowerMap[s[i]] ELSE s[i]]

\* sep.join(parts)
RECURSIVE join(_, _)
join(sep, parts) ==
  IF parts = <<>> THEN <<>>
  ELSE IF Len(parts) = 1 THEN parts[1]
       ELSE parts[1] \o sep \o join(sep, Tail(parts))

\* if s.startswith('="') and s.endswith('"'): s = s[2:-1]
strip_double_quoted(s) ==
  IF startswith(s, <<"=", "\"">>) /\ endswith(s, <<"\"">>)
  THEN SubSeq(s, 3, Len(s) - 1) ELSE s

\* if s.startswith("='") and s.endswith("'"): s = s[2:-1]
strip_single_quoted(s) ==
  IF startswith(s, <<"=", "'">>) /\ endswith(s, <<"'">>)
  THEN SubSeq(s, 3, Len(s) - 1) ELSE s

\* if s.startswith("="): s = s[1:]
strip_equals(s) == IF startswith(s, <<"=">>) THEN Tail(s) ELSE s

clean_text(v) ==
  strip(normalize_newlines(strip_equals(strip_single_quoted(strip_double_quoted(strip(v))))))

(***************************************************************************)
(* Grid access.                                                            *)
(***************************************************************************)
EmptyCell == [value |-> <<>>, alignment |-> NoAlign, bold |-> FALSE]

\* ws.cell(r, c): a cell outside the stored dimensions is an empty cell
cell(w, row, col) ==
  IF row \in 1..w.max_row /\ col \in 1..w.max_column THEN w.cells[row][col] ELSE EmptyCell

\* the dict of build_merge_index: covered coordinate -> (min_row, min_col, max_row, max_col)
build_merge_index(w) ==
  LET covered == {<<row, col>> \in (1..w.max_row) \X (1..w.max_column) :
                    \E mr \in w.merged : /\ mr[1] <= row /\ row <= mr[3]
                                         /\ mr[2] <= col /\ col <= mr[4]}
  IN [p \in covered |->
        CHOOSE mr \in w.merged : /\ mr[1] <= p[1] /\ p[1] <= mr[3]
                                 /\ mr[2] <= p[2] /\ p[2] <= mr[4]]

\* the dict get_cell_info returns for the resolved cell cl
cell_info_of(cl) ==
  [value |-> cl.value,
   alignment |-> cl.alignment,
   bold |-> cl.bold,
   center |-> cl.alignment = "center"]

get_cell_info(w, row, col, midx) ==
  cell_info_of(IF <<row, col>> \in DOMAIN midx
               THEN cell(w, midx[<<row, col>>][1], midx[<<row, col>>][2])
               ELSE cell(w, row, col))

get_value(w, row, col, midx) == get_cell_info(w, row, col, midx).value

row_region_values(w, row, ca, cb, midx) ==
  [i \in 1..(IF cb >= ca THEN cb - ca + 1 ELSE 0) |->
     clean_text(get_value(w, row, ca + i - 1, midx))]

is_row_blank(vals) == \A i \in 1..Len(vals) : vals[i] = <<>>

(***************************************************************************)
(* MarkerScanner: find_regions and scan_titles.                            *)
(***************************************************************************)
\* (min_row, min_col, max_row, max_col) of the merge covering a cell, or the cell itself
rect_of(midx, row, col) ==
  IF <<row, col>> \in DOMAIN midx THEN midx[<<row, col>>] ELSE <<row, col, row, col>>

\* the region a cell with cleaned text v defines, as a list of zero or one region
region_of_cell(v, m) ==
  IF startswith(v, REGION_)
  THEN <<[code |-> strip(split_last(v, REGION_)), row |-> m[1],
          col_start |-> m[2], col_end |-> m[4]]>>
  ELSE <<>>

\* the list regions of find_regions before deduplication, in row-major scan order
RECURSIVE scan_regions(_, _, _, _)
scan_regions(w, midx, row, col) ==
  IF row > w.max_row THEN <<>>
  ELSE IF col > w.max_column THEN scan_regions(w, midx, row + 1, 1)
  ELSE region_of_cell(clean_text(get_value(w, row, col, midx)), rect_of(midx, row, col))
       \o scan_regions(w, midx, row, col + 1)

\* the loop over regions that keeps the first occurrence of every key
region_key(rg) == <<rg.code, rg.row, rg.col_start, rg.col_end>>

RECURSIVE dedup_regions(_, _)
dedup_regions(rgs, seen) ==
  IF rgs = <<>> THEN <<>>
  ELSE IF region_key(Head(rgs)) \in seen THEN dedup_regions(Tail(rgs), seen)
       ELSE <<Head(rgs)>> \o dedup_regions(Tail(rgs), seen \cup {region_key(Head(rgs))})

\* a sort by row first, then col_start
region_key_less_row_first(a, b) ==
  \/ a.row < b.row
  \/ a.row = b.row /\ a.col_start < b.col_start

\* the sort key of uniq.sort: (col_start, row), compared as tuples
region_key_less(a, b) ==
  \/ a.col_start < b.col_start
  \/ a.col_start = b.col_start /\ a.row < b.row

\* list.sort is stable: an element goes after every element that is not greater
RECURSIVE insert_sorted(_, _)
insert_sorted(sorted, x) ==
  IF sorted = <<>> THEN <<x>>
  ELSE IF region_key_less(x, Head(sorted)) THEN <<x>> \o sorted
       ELSE <<Head(sorted)>> \o insert_sorted(Tail(sorted), x)

RECURSIVE sort_regions(_, _)
sort_regions(rgs, acc) ==
  IF rgs = <<>> THEN acc ELSE sort_regions(Tail(rgs), insert_sorted(acc, Head(rgs)))

find_regions(w, midx) ==
  sort_regions(dedup_regions(scan_regions(w, midx, 1, 1), {}), <<>>)

\* index of the first value of vals, from index i on, that starts with p; 0 if none
RECURSIVE first_index(_, _, _)
first_index(vals, p, i) ==
  IF i > Len(vals) THEN 0
  ELSE IF startswith(vals[i], p) THEN i ELSE first_index(vals, p, i + 1)

\* the title of a row with values row_vals whose first TITLE- cell is at index i
title_of_row(row_vals, i, row) ==
  IF i = 0 THEN <<>>
  ELSE <<<<strip(split_last(row_vals[i], TITLE_)),
           IF i + 1 <= Len(row_vals) THEN row_vals[i + 1] ELSE <<>>,
           row>>>>

titles_of_row(row_vals, row) == title_of_row(row_vals, first_index(row_vals, TITLE_, 1), row)

\* the titles of scan_titles from row `row` on: (title_type, title_text, row)
RECURSIVE scan_titles_from(_, _, _, _)
scan_titles_from(w, region, midx, row) ==
  IF row > w.max_row THEN <<>>
  ELSE titles_of_row(row_region_values(w, row, region.col_start, region.col_end, midx), row)
       \o scan_titles_from(w, region, midx, row + 1)

scan_titles(w, region, midx) == scan_titles_from(w, region, midx, region.row + 1)

(***************************************************************************)
(* RewardCollector.  A collector of parse_section_block appends one        *)
(* section to `sections` and returns the next unprocessed row; here it     *)
(* returns both, [section, rr].                                            *)
(***************************************************************************)
\* a marker that ends a reward list: TITLE-, RINK-, RANK-, RULES-, TABLE-
is_block_marker(first) ==
  \/ startswith(first, TITLE_) \/ startswith(first, RINK_) \/ startswith(first, RANK_)
  \/ startswith(first, RULES_) \/ startswith(first, TABLE_)

\* TITLE-, RINK- or RANK-
is_title_or_rank(first) ==
  startswith(first, TITLE_) \/ startswith(first, RINK_) \/ startswith(first, RANK_)

\* a loop that fills an empty name and leaves desc alone
RECURSIVE fill_name_only(_, _, _)
fill_name_only(vals, name, desc) ==
  IF vals = <<>> THEN <<name, desc>>
  ELSE IF Head(vals) # <<>> /\ name = <<>> THEN fill_name_only(Tail(vals), Head(vals), desc)
       ELSE fill_name_only(Tail(vals), name, desc)

\* the loop `for vv in rv[1:]` that fills an empty name, then an empty desc
RECURSIVE fill_name(_, _, _)
fill_name(vals, name, desc) ==
  IF vals = <<>> THEN <<name, desc>>
  ELSE IF Head(vals) # <<>>
       THEN IF name = <<>> THEN fill_name(Tail(vals), Head(vals), desc)
            ELSE IF desc = <<>> THEN fill_name(Tail(vals), name, Head(vals))
                 ELSE fill_name(Tail(vals), name, desc)
       ELSE fill_name(Tail(vals), name, desc)

\* first = rv[0] if rv else ""
first_of_row(rv) == IF rv # <<>> THEN rv[1] ELSE <<>>

\* rv[1:]
rest_of_row(rv) == IF rv = <<>> THEN <<>> ELSE Tail(rv)

\* the item appended for (name, img_text, desc), as a list of zero or one item
reward_item(name, img_text, desc, rr, ca) ==
  IF name # <<>> \/ desc # <<>> \/ img_text # <<>>
  THEN <<[name |-> name, image |-> img_text, desc |-> desc, _row |-> rr,
          _img_col |-> ca + 2,
          _expected |-> IF img_text # <<>> THEN img_text ELSE name]>>
  ELSE <<>>

\* an item built without the fallback for an empty name
name_and_desc_as_read(rv, name, desc) == <<name, desc>>

\* (name, desc) after the fallback for an empty name
name_and_desc(rv, name, desc) ==
  IF name = <<>> THEN fill_name(rest_of_row(rv), name, desc) ELSE <<name, desc>>

reward_item_nd(nd, img_text, rr, ca) == reward_item(nd[1], img_text, nd[2], rr, ca)

\* the reward item of row rr, as a list of zero or one item
reward_items_of_row(rv, rr, ca) ==
  reward_item_nd(name_and_desc(rv, IF Len(rv) > 1 THEN rv[2] ELSE <<>>,
                               IF Len(rv) > 3 THEN rv[4] ELSE <<>>),
                 IF Len(rv) > 2 THEN rv[3] ELSE <<>>, rr, ca)

\* a reward loop that may break at its first row too
rewards_stop_at_first_row(rv, rr, r0) ==
  is_block_marker(first_of_row(rv)) \/ is_row_blank(rv)

\* whether the reward loop breaks at row rr with values rv
rewards_stop(rv, rr, r0) ==
  /\ rr # r0
  /\ is_block_marker(first_of_row(rv)) \/ is_row_blank(rv)

RECURSIVE rewards_loop(_, _, _, _, _, _, _, _)
RECURSIVE rewards_row(_, _, _, _, _, _, _, _, _)
rewards_row(w, ca, cb, rend, midx, r0, rr, items, rv) ==
  IF rewards_stop(rv, rr, r0) THEN [items |-> items, rr |-> rr]
  ELSE rewards_loop(w, ca, cb, rend, midx, r0, rr + 1,
                    items \o reward_items_of_row(rv, rr, ca))

rewards_loop(w, ca, cb, rend, midx, r0, rr, items) ==
  IF rr > rend THEN [items |-> items, rr |-> rr]
  ELSE rewards_row(w, ca, cb, rend, midx, r0, rr, items,
                   row_region_values(w, rr, ca, cb, midx))

rewards_result(section_title, res) ==
  [section |-> [title |-> section_title, content |-> <<>>, rewards |-> res.items],
   rr |-> res.rr]

collect_rewards(w, ca, cb, rend, midx, r0, section_title) ==
  rewards_result(section_title, rewards_loop(w, ca, cb, rend, midx, r0, r0, <<>>))

(***************************************************************************)
(* TableCollector.                                                         *)
(***************************************************************************)
\* any(val.startswith("TABLE-") for val in vals if val)
has_table(vals) == \E i \in 1..Len(vals) : startswith(vals[i], TABLE_)

ImageExts ==
  {<<".", "p", "n", "g">>, <<".", "j", "p", "g">>, <<".", "j", "p", "e", "g">>,
   <<".", "g", "i", "f">>, <<".", "w", "e", "b", "p">>}

ImagePrefix == <<"i", "m", "a", "g", "e", ":">>

\* a span that ignores the merge of the marker cell
span_at_unmerged(ca, cb, midx, r0, col_idx) ==
  IF col_idx = 0 THEN <<ca, cb>> ELSE <<ca + 1, cb>>

\* the span for a marker row whose first TABLE- cell is the col_idx-th of the region
span_at(ca, cb, midx, r0, col_idx) ==
  IF col_idx = 0 THEN <<ca, cb>>
  ELSE IF <<r0, ca + col_idx - 1>> \in DOMAIN midx
       THEN <<IF midx[<<r0, ca + col_idx - 1>>][2] = ca
              THEN midx[<<r0, ca + col_idx - 1>>][2] + 1
              ELSE midx[<<r0, ca + col_idx - 1>>][2],
              midx[<<r0, ca + col_idx - 1>>][4]>>
       ELSE <<ca + 1, cb>>

\* (table_c1, table_c2): the column span fixed at the marker row r0
table_span(w, ca, cb, midx, r0) ==
  span_at(ca, cb, midx, r0, first_index(row_region_values(w, r0, ca, cb, midx), TABLE_, 1))

\* is_image of a cell text, given its lower-cased text
is_image_text(val_lower) ==
  /\ val_lower # <<>>
  /\ \/ \E ext \in ImageExts : contains(val_lower, ext)
     \/ startswith(val_lower, ImagePrefix)

\* image_id of a cell text
image_id_of(val) ==
  IF startswith(lower(val), ImagePrefix) THEN strip(SubSeq(val, 7, Len(val))) ELSE val

\* cell_data for the cell at (rr, actual_col) with merge rectangle m
cell_data(val, m, cell_info, rr, actual_col, is_image) ==
  [value |-> val, is_image |-> is_image,
   rowspan |-> m[3] - m[1] + 1, colspan |-> m[4] - m[2] + 1,
   bold |-> cell_info.bold, center |-> cell_info.center,
   _row |-> rr, _col |-> actual_col,
   _expected |-> IF is_image THEN image_id_of(val) ELSE None]

\* a row that emits the merged children too
table_cell_with_children(w, midx, rr, actual_col, val) ==
  <<cell_data(val, rect_of(midx, rr, actual_col),
              get_cell_info(w, rr, actual_col, midx), rr, actual_col,
              is_image_text(lower(val)))>>

\* the cell_data of one cell of a data row, as a list of zero or one cell:
\* a merged child is skipped
table_cell(w, midx, rr, actual_col, val) ==
  IF /\ <<rr, actual_col>> \in DOMAIN midx
     /\ \/ rr # midx[<<rr, actual_col>>][1]
        \/ actual_col # midx[<<rr, actual_col>>][2]
  THEN <<>>
  ELSE <<cell_data(val, rect_of(midx, rr, actual_col),
                   get_cell_info(w, rr, actual_col, midx), rr, actual_col,
                   is_image_text(lower(val)))>>

\* row_data: the cells of data row rr over the table span
RECURSIVE table_row(_, _, _, _, _, _)
table_row(w, midx, rr, table_c1, rv, col_idx) ==
  IF col_idx > Len(rv) THEN <<>>
  ELSE table_cell(w, midx, rr, table_c1 + col_idx - 1, rv[col_idx])
       \o table_row(w, midx, rr, table_c1, rv, col_idx + 1)

\* a table that every empty row stops
table_stop_at_any_blank(w, ca, rend, midx, table_c1, table_c2, rr) == TRUE

\* an empty row stops the table when the next row is empty or carries a marker
table_stop_blank(w, ca, rend, midx, table_c1, table_c2, rr) ==
  /\ rr + 1 <= rend
  /\ \/ is_row_blank(row_region_values(w, rr + 1, table_c1, table_c2, midx))
     \/ is_title_or_rank(clean_text(get_value(w, rr + 1, ca, midx)))

\* whether the table loop breaks at row rr
table_stop(w, ca, rend, midx, table_c1, table_c2, rr, marker_col_val, rv) ==
  \/ is_title_or_rank(marker_col_val)
  \/ has_table(rv)
  \/ is_row_blank(rv) /\ table_stop_blank(w, ca, rend, midx, table_c1, table_c2, rr)

RECURSIVE table_loop(_, _, _, _, _, _, _, _)
RECURSIVE table_data_row(_, _, _, _, _, _, _, _, _, _)
table_data_row(w, ca, rend, midx, table_c1, table_c2, rr, rows, marker_col_val, rv) ==
  IF table_stop(w, ca, rend, midx, table_c1, table_c2, rr, marker_col_val, rv)
  THEN [rows |-> rows, rr |-> rr]
  ELSE table_loop(w, ca, rend, midx, table_c1, table_c2, rr + 1,
                  Append(rows, table_row(w, midx, rr, table_c1, rv, 1)))

table_loop(w, ca, rend, midx, table_c1, table_c2, rr, rows) ==
  IF rr > rend THEN [rows |-> rows, rr |-> rr]
  ELSE table_data_row(w, ca, rend, midx, table_c1, table_c2, rr, rows,
                      clean_text(get_value(w, rr, ca, midx)),
                      row_region_values(w, rr, table_c1, table_c2, midx))

\* a collector that returns the row it stopped at, end marker or not
table_result_unconsumed(w, rend, midx, span, res) ==
  [section |-> [title |-> <<>>, content |-> <<>>, rewards |-> <<>>,
                table |-> [type |-> "table", rows |-> res.rows]],
   rr |-> res.rr]

\* lines 344-359: the section, and the row after a TABLE- end marker
table_result(w, rend, midx, span, res) ==
  [section |-> [title |-> <<>>, content |-> <<>>, rewards |-> <<>>,
                table |-> [type |-> "table", rows |-> res.rows]],
   rr |-> IF /\ res.rr <= rend
             /\ has_table(row_region_values(w, res.rr, span[1], span[2], midx))
          THEN res.rr + 1 ELSE res.rr]

collect_table_span(w, ca, rend, midx, r0, span) ==
  table_result(w, rend, midx, span,
               table_loop(w, ca, rend, midx, span[1], span[2], r0 + 1, <<>>))

collect_table(w, ca, cb, rend, midx, r0) ==
  collect_table_span(w, ca, rend, midx, r0, table_span(w, ca, cb, midx, r0))

(***************************************************************************)
(* RulesContentCollector and the fallback paragraph.                       *)
(***************************************************************************)
\* the cells of row rr over [ca, cb], with format
row_cells_info(w, rr, ca, cb, midx) ==
  [i \in 1..(IF cb >= ca THEN cb - ca + 1 ELSE 0) |-> get_cell_info(w, rr, ca + i - 1, midx)]

\* rv = [clean_text(cell['value']) for cell in cells_info]
cleaned_values(cells_info) == [i \in 1..Len(cells_info) |-> clean_text(cells_info[i].value)]

\* a TextRun: style fields are present only when set
text_run(val, cell_info) ==
  IF cell_info.bold THEN [text |-> val, bold |-> TRUE] ELSE [text |-> val]

\* the alignment a rules paragraph has after a cell with alignment `alignment`
rules_align(paragraph_align, alignment) ==
  IF alignment = "center" THEN "center"
  ELSE IF alignment = "right" THEN "right"
  ELSE IF alignment = "left" THEN "left"
  ELSE paragraph_align

\* the alignment a fallback paragraph has after a cell with alignment `alignment`
fallback_align(paragraph_align, alignment) ==
  IF alignment = "center" THEN "center"
  ELSE IF alignment = "right" THEN "right"
  ELSE paragraph_align

\* the loop over cells_info[1:] of the rules collector, on the cleaned values rv
RECURSIVE rules_runs(_, _, _, _, _, _)
rules_runs(cells_info, rv, i, seen_row, paragraph_align, runs) ==
  IF i > Len(cells_info) THEN [align |-> paragraph_align, runs |-> runs]
  ELSE IF rv[i] = <<>> \/ rv[i] \in seen_row
       THEN rules_runs(cells_info, rv, i + 1, seen_row, paragraph_align, runs)
       ELSE rules_runs(cells_info, rv, i + 1, seen_row \cup {rv[i]},
                       rules_align(paragraph_align, cells_info[i].alignment),
                       Append(runs, text_run(rv[i], cells_info[i])))

\* the loop over cells_info[1:] of the fallback branch, on the cleaned values rv
RECURSIVE fallback_runs(_, _, _, _, _, _)
fallback_runs(cells_info, rv, i, seen_row, paragraph_align, runs) ==
  IF i > Len(cells_info) THEN [align |-> paragraph_align, runs |-> runs]
  ELSE IF rv[i] = <<>> \/ rv[i] \in seen_row
       THEN fallback_runs(cells_info, rv, i + 1, seen_row, paragraph_align, runs)
       ELSE fallback_runs(cells_info, rv, i + 1, seen_row \cup {rv[i]},
                          fallback_align(paragraph_align, cells_info[i].alignment),
                          Append(runs, text_run(rv[i], cells_info[i])))

BlankParagraph == [align |-> "left", runs |-> <<[text |-> <<>>]>>]

\* the texts of the runs of a paragraph
run_texts(runs) == [i \in 1..Len(runs) |-> runs[i].text]

\* '|'.join(run['text'] for run in runs)
line_key(runs) == join(<<"|">>, run_texts(runs))

\* an empty row stops the rules collector when it is the last row, or when
\* the next row is empty or starts with TITLE-/RINK-/RANK-
rules_stop_next(next_rv) == is_row_blank(next_rv) \/ is_title_or_rank(first_of_row(next_rv))

rules_stop_blank(w, ca, cb, rend, midx, rr) ==
  IF rr + 1 <= rend THEN rules_stop_next(row_region_values(w, rr + 1, ca, cb, midx))
  ELSE TRUE

\* whether the rules loop breaks at row rr with values rv
rules_stop(w, ca, cb, rend, midx, r0, rr, rv) ==
  /\ rr > r0
  /\ \/ is_title_or_rank(first_of_row(rv))
     \/ has_table(rest_of_row(rv))
     \/ is_row_blank(rv) /\ rules_stop_blank(w, ca, cb, rend, midx, rr)

\* a collector that appends the paragraph of every row
rules_append_every_row(paragraphs, seen_lines, p, key) ==
  IF p.runs # <<>> THEN <<Append(paragraphs, p), seen_lines \cup {key}>>
  ELSE <<Append(paragraphs, BlankParagraph), seen_lines>>

\* (paragraphs, seen_lines) after the paragraph p of a row
rules_append(paragraphs, seen_lines, p, key) ==
  IF p.runs # <<>>
  THEN IF key \notin seen_lines
       THEN <<Append(paragraphs, p), seen_lines \cup {key}>>
       ELSE <<paragraphs, seen_lines>>
  ELSE <<Append(paragraphs, BlankParagraph), seen_lines>>

rules_append_p(paragraphs, seen_lines, p) ==
  rules_append(paragraphs, seen_lines, p, line_key(p.runs))

RECURSIVE rules_loop(_, _, _, _, _, _, _, _)
RECURSIVE rules_row(_, _, _, _, _, _, _, _, _, _)
rules_row(w, ca, cb, rend, midx, r0, rr, acc, cells_info, rv) ==
  IF rules_stop(w, ca, cb, rend, midx, r0, rr, rv)
  THEN [paragraphs |-> acc[1], rr |-> rr]
  ELSE rules_loop(w, ca, cb, rend, midx, r0, rr + 1,
                  rules_append_p(acc[1], acc[2],
                                 rules_runs(cells_info, rv, 2, {}, "left", <<>>)))

rules_row_cells(w, ca, cb, rend, midx, r0, rr, acc, cells_info) ==
  rules_row(w, ca, cb, rend, midx, r0, rr, acc, cells_info, cleaned_values(cells_info))

\* acc is (paragraphs, seen_lines)
rules_loop(w, ca, cb, rend, midx, r0, rr, acc) ==
  IF rr > rend THEN [paragraphs |-> acc[1], rr |-> rr]
  ELSE rules_row_cells(w, ca, cb, rend, midx, r0, rr, acc,
                       row_cells_info(w, rr, ca, cb, midx))

rules_result(section_title, res) ==
  [section |-> [title |-> section_title, paragraphs |-> res.paragraphs,
                rewards |-> <<>>],
   rr |-> res.rr]

collect_rules_content(w, ca, cb, rend, midx, r0, section_title) ==
  rules_result(section_title, rules_loop(w, ca, cb, rend, midx, r0, r0, <<<<>>, {}>>))

\* an extent that goes on over a RULES- row with another title
extent_stop_any_title(next_rv, title) ==
  \/ is_row_blank(next_rv)
  \/ is_title_or_rank(first_of_row(next_rv))
  \/ startswith(first_of_row(next_rv), TABLE_)

\* whether the extent of RULES-<title> ends before a row with values next_rv
extent_stop(next_rv, title) ==
  \/ is_row_blank(next_rv)
  \/ is_title_or_rank(first_of_row(next_rv))
  \/ startswith(first_of_row(next_rv), TABLE_)
  \/ /\ startswith(first_of_row(next_rv), RULES_)
     /\ strip(split_last(first_of_row(next_rv), RULES_)) # title

\* rules_end: the last row of the extent of the RULES- marker at row r0
RECURSIVE rules_extent(_, _, _, _, _, _, _)
rules_extent(w, ca, cb, rend, midx, title, rules_end) ==
  IF rules_end + 1 > rend THEN rules_end
  ELSE IF extent_stop(row_region_values(w, rules_end + 1, ca, cb, midx), title)
       THEN rules_end
       ELSE rules_extent(w, ca, cb, rend, midx, title, rules_end + 1)

\* the paragraph of a row from its runs, or the blank paragraph
paragraph_or_blank(p) == IF p.runs # <<>> THEN p ELSE BlankParagraph

fallback_of_cells(cells_info) ==
  paragraph_or_blank(fallback_runs(cells_info, cleaned_values(cells_info), 2, {}, "left", <<>>))

\* the paragraph the fallback branch appends for row rr
fallback_paragraph(w, ca, cb, midx, rr) ==
  fallback_of_cells(row_cells_info(w, rr, ca, cb, midx))

(***************************************************************************)
(* SectionBlockParser: one iteration of the scanning loop per branch.      *)
(* The state of the loop is [r, sections, block_free_paragraphs].          *)
(***************************************************************************)
\* the branch the loop takes at a row with values rv
dispatch_of(rv) ==
  IF is_row_blank(rv) THEN "blank"
  ELSE IF has_table(rest_of_row(rv)) THEN "table"
  ELSE IF startswith(first_of_row(rv), RULES_) THEN "rules"
  ELSE IF startswith(first_of_row(rv), RANK_) \/ startswith(first_of_row(rv), RINK_)
       THEN "rewards"
  ELSE "fallback"

\* the branch the loop takes at row rr
dispatch(w, ca, cb, midx, rr) == dispatch_of(row_region_values(w, rr, ca, cb, midx))

\* first = rv[0] of row rr
first_of(w, ca, cb, midx, rr) == first_of_row(row_region_values(w, rr, ca, cb, midx))

\* r = collect_...(r): the collector appended its section and returned the next row
collected(st, res) == [st EXCEPT !.r = res.rr, !.sections = Append(@, res.section)]

blank_branch(st) == [st EXCEPT !.r = @ + 1]

table_branch(w, ca, cb, rend, midx, st) ==
  collected(st, collect_table(w, ca, cb, rend, midx, st.r))

\* title = first.split("RULES-")[-1].strip()
rules_title(first) == strip(split_last(first, RULES_))

\* the collector under r_end = rules_end
rules_branch_title(w, ca, cb, rend, midx, st, title) ==
  collected(st, collect_rules_content(w, ca, cb,
                                      rules_extent(w, ca, cb, rend, midx, title, st.r),
                                      midx, st.r, title))

\* the RULES- branch: the extent, then the collector under r_end = rules_end
rules_branch(w, ca, cb, rend, midx, st) ==
  rules_branch_title(w, ca, cb, rend, midx, st, rules_title(first_of(w, ca, cb, midx, st.r)))

\* sub = first.split("RANK-")[-1].strip(), or the same for RINK-
rewards_title(first) ==
  IF startswith(first, RANK_) THEN strip(split_last(first, RANK_))
  ELSE strip(split_last(first, RINK_))

rewards_branch(w, ca, cb, rend, midx, st) ==
  collected(st, collect_rewards(w, ca, cb, rend, midx, st.r,
                                rewards_title(first_of(w, ca, cb, midx, st.r))))

fallback_branch(w, ca, cb, midx, st) ==
  [st EXCEPT !.r = @ + 1,
             !.block_free_paragraphs = Append(@, fallback_paragraph(w, ca, cb, midx, st.r))]

iteration_of(w, ca, cb, rend, midx, st, d) ==
  CASE d = "blank" -> blank_branch(st)
    [] d = "table" -> table_branch(w, ca, cb, rend, midx, st)
    [] d = "rules" -> rules_branch(w, ca, cb, rend, midx, st)
    [] d = "rewards" -> rewards_branch(w, ca, cb, rend, midx, st)
    [] OTHER -> fallback_branch(w, ca, cb, midx, st)

iteration(w, ca, cb, rend, midx, st) ==
  iteration_of(w, ca, cb, rend, midx, st, dispatch(w, ca, cb, midx, st.r))

RECURSIVE block_loop(_, _, _, _, _, _)
block_loop(w, ca, cb, rend, midx, st) ==
  IF st.r > rend THEN st ELSE block_loop(w, ca, cb, rend, midx, iteration(w, ca, cb, rend, midx, st))

loop_result(st) == <<st.sections, st.block_free_paragraphs>>

\* returns (sections, block_free_paragraphs)
parse_section_block(w, ca, cb, rs, rend, midx) ==
  loop_result(block_loop(w, ca, cb, rend, midx,
                         [r |-> rs, sections |-> <<>>, block_free_paragraphs |-> <<>>]))

(***************************************************************************)
(* SectionMerger, BlockClassifier, DocumentAssembler.                      *)
(***************************************************************************)
\* the loop of merge_reward_sections: title_to_index maps a title to its index in merged
merge_step(s, merged, title_to_index) ==
  IF s.rewards # <<>>
  THEN IF s.title \in DOMAIN title_to_index
       THEN <<[merged EXCEPT ![title_to_index[s.title]].rewards = @ \o s.rewards],
              title_to_index>>
       ELSE <<Append(merged, [title |-> s.title, paragraphs |-> <<>>,
                              rewards |-> s.rewards]),
              (s.title :> Len(merged) + 1) @@ title_to_index>>
  ELSE <<Append(merged, s), title_to_index>>

RECURSIVE merge_loop(_, _)
merge_loop(secs, acc) ==
  IF secs = <<>> THEN acc[1]
  ELSE merge_loop(Tail(secs), merge_step(Head(secs), acc[1], acc[2]))

merge_reward_sections(secs) == merge_loop(secs, <<<<>>, <<>>>>)

reward_keywords ==
  {<<"U5956", "U52B1">>, <<"r", "e", "w", "a", "r", "d">>, <<"U699C">>,
   <<"U6392", "U884C">>, <<"U6392", "U540D">>,
   <<"l", "e", "a", "d", "e", "r", "b", "o", "a", "r", "d">>,
   <<"p", "r", "i", "z", "e">>, <<"U5956", "U54C1">>}

RECURSIVE total_rewards(_)
total_rewards(secs) ==
  IF secs = <<>> THEN 0 ELSE Len(Head(secs).rewards) + total_rewards(Tail(secs))

\* merged_secs of parse_sheet
merged_sections(title_type, title_text, secs, fallback) ==
  IF secs # <<>> THEN merge_reward_sections(secs)
  ELSE <<[title |-> IF title_text # <<>> THEN title_text ELSE title_type,
          paragraphs |-> fallback, rewards |-> <<>>]>>

has_reward_keyword(title_lower) == \E kw \in reward_keywords : contains(title_lower, kw)

\* a classifier that compares the keywords with the title type as written
block_type_case_sensitive(title_type, merged_secs) ==
  IF total_rewards(merged_secs) > 0 \/ has_reward_keyword(title_type)
  THEN "rewards" ELSE "rules"

block_type(title_type, merged_secs) ==
  IF total_rewards(merged_secs) > 0 \/ has_reward_keyword(lower(title_type))
  THEN "rewards" ELSE "rules"

\* final_title without a residual TITLE- prefix
final_title(title0) ==
  IF startswith(title0, TITLE_) THEN strip(split_first(title0, TITLE_)) ELSE title0

block_of(title_type, title_text, merged_secs) ==
  [block_title |-> final_title(IF title_text # <<>> THEN title_text ELSE title_type),
   block_type |-> block_type(title_type, merged_secs),
   sections |-> merged_secs]

\* the block parse_sheet appends for one title
make_block(title_type, title_text, secs, fallback) ==
  block_of(title_type, title_text, merged_sections(title_type, title_text, secs, fallback))

RTL_REGIONS ==
  {<<"M", "E", "C", "A">>, <<"A", "R", "A", "B">>, <<"A", "R", "A", "B", "I", "C">>,
   <<"S", "A">>, <<"U", "A", "E">>, <<"E", "G">>, <<"I", "L">>,
   <<"I", "S", "R", "A", "E", "L">>, <<"J", "O">>, <<"L", "B">>, <<"I", "Q">>,
   <<"S", "Y">>}

\* s.upper()
upper(s) ==
  [i \in 1..Len(s) |->
     IF \E k \in DOMAIN LowerMap : LowerMap[k] = s[i]
     THEN CHOOSE k \in DOMAIN LowerMap : LowerMap[k] = s[i] ELSE s[i]]

\* a test that compares the tokens with the region code as written
is_rtl_region_as_written(region_code) ==
  IF region_code = <<>> THEN FALSE
  ELSE \E rtl \in RTL_REGIONS : contains(region_code, rtl)

is_rtl_region(region_code) ==
  IF region_code = <<>> THEN FALSE
  ELSE \E rtl \in RTL_REGIONS : contains(upper(region_code), rtl)

\* an r_end that takes the row of the next title itself
block_r_end_next_title(w, tts, i) == IF i + 1 <= Len(tts) THEN tts[i + 1][3] ELSE w.max_row

\* r_end of the block of title i: the row above the next title, or the last row
block_r_end(w, tts, i) == IF i + 1 <= Len(tts) THEN tts[i + 1][3] - 1 ELSE w.max_row

make_page(region, blks) ==
  [region |-> region.code,
   direction |-> IF is_rtl_region(region.code) THEN "rtl" ELSE "ltr",
   blocks |-> blks]

block_of_result(title, res) == make_block(title[1], title[2], res[1], res[2])

\* the blocks of one region with titles tts
blocks_of(w, midx, region, tts) ==
  [i \in 1..Len(tts) |->
     block_of_result(tts[i],
                     parse_section_block(w, region.col_start, region.col_end,
                                         tts[i][3] + 1, block_r_end(w, tts, i), midx))]

\* the page of one region
page_of(w, midx, region) ==
  make_page(region, blocks_of(w, midx, region, scan_titles(w, region, midx)))

pages_of(w, midx, rgs) == [i \in 1..Len(rgs) |-> page_of(w, midx, rgs[i])]

sheet_of(w, midx) == [pages |-> pages_of(w, midx, find_regions(w, midx))]

parse_sheet(w) == sheet_of(w, build_merge_index(w))

(***************************************************************************)
(* has_region_marker.                                                      *)
(***************************************************************************)
has_region_marker(w) ==
  IF w.max_row < 1 THEN FALSE
  ELSE \E col \in 1..w.max_column :
         /\ cell(w, 1, col).value # <<>>
         /\ startswith(strip(cell(w, 1, col).value), REGION_)

(***************************************************************************)
(* parse_sheet as a state machine: one action per step of its loops.       *)
(***************************************************************************)
loop_state == [r |-> r, sections |-> sections, block_free_paragraphs |-> block_free_paragraphs]

\* lines 632-634: the merge index, the regions
ParseSheetStart ==
  /\ pc = "start"
  /\ merge_idx' = build_merge_index(ws)
  /\ regions' = find_regions(ws, merge_idx')
  /\ pages' = <<>>
  /\ ri' = 1
  /\ pc' = "region"
  /\ UNCHANGED <<ws, titles, ti, blocks, bvars, fvars>>

\* lines 635-638: the next region, its titles
RegionStart ==
  /\ pc = "region"
  /\ ri <= Len(regions)
  /\ c1' = regions[ri].col_start
  /\ c2' = regions[ri].col_end
  /\ titles' = scan_titles(ws, regions[ri], merge_idx)
  /\ blocks' = <<>>
  /\ ti' = 1
  /\ calls' = <<>>
  /\ pc' = "title"
  /\ UNCHANGED <<ws, merge_idx, regions, ri, pages, r_start, r_end, r, sections,
                 block_free_paragraphs, step, trail, fvars>>

\* lines 640-643: the next title, the call of parse_section_block
BlockStart ==
  /\ pc = "title"
  /\ ti <= Len(titles)
  /\ r_start' = titles[ti][3] + 1
  /\ r_end' = block_r_end(ws, titles, ti)
  /\ r' = r_start'
  /\ sections' = <<>>
  /\ block_free_paragraphs' = <<>>
  /\ step' = [kind |-> "start", r0 |-> r_start', r_end |-> r_end']
  /\ calls' = Append(calls, <<r_start', r_end'>>)
  /\ trail' = <<>>
  /\ pc' = "scan"
  /\ UNCHANGED <<ws, merge_idx, regions, ri, titles, ti, blocks, pages, c1, c2, fvars>>

\* what every iteration of the scanning loop leaves alone
IterationFrame ==
  UNCHANGED <<ws, merge_idx, regions, ri, titles, ti, blocks, pages, pc, c1, c2,
              r_start, calls, fvars>>

\* the loop state after one iteration; the iteration goes from row r to row st.r
SetLoop(st) ==
  /\ r' = st.r
  /\ sections' = st.sections
  /\ block_free_paragraphs' = st.block_free_paragraphs
  /\ trail' = Append(trail, [r0 |-> r, r1 |-> st.r, sections |-> Len(st.sections)])

\* lines 471-474: a blank row is skipped
BlankRow ==
  /\ pc = "scan"
  /\ r <= r_end
  /\ dispatch(ws, c1, c2, merge_idx, r) = "blank"
  /\ SetLoop(blank_branch(loop_state))
  /\ step' = [kind |-> "blank", r0 |-> r, r_end |-> r_end]
  /\ r_end' = r_end
  /\ IterationFrame

\* lines 479-483: a TABLE- cell in a content column starts a table
TableRow ==
  /\ pc = "scan"
  /\ r <= r_end
  /\ dispatch(ws, c1, c2, merge_idx, r) = "table"
  /\ SetLoop(table_branch(ws, c1, c2, r_end, merge_idx, loop_state))
  /\ step' = [kind |-> "table", r0 |-> r, r_end |-> r_end]
  /\ r_end' = r_end
  /\ IterationFrame

\* a RULES- branch that leaves r_end at rules_end after the collector
RulesRow_narrowed ==
  /\ pc = "scan"
  /\ r <= r_end
  /\ dispatch(ws, c1, c2, merge_idx, r) = "rules"
  /\ SetLoop(rules_branch(ws, c1, c2, r_end, merge_idx, loop_state))
  /\ step' = [kind |-> "rules", r0 |-> r,
              r_end |-> rules_extent(ws, c1, c2, r_end, merge_idx,
                                     rules_title(first_of(ws, c1, c2, merge_idx, r)), r)]
  /\ r_end' = step'.r_end
  /\ IterationFrame

\* lines 485-519: a RULES- marker; r_end is narrowed to rules_end for the call
\* of the collector and restored after it
RulesRow ==
  /\ pc = "scan"
  /\ r <= r_end
  /\ dispatch(ws, c1, c2, merge_idx, r) = "rules"
  /\ SetLoop(rules_branch(ws, c1, c2, r_end, merge_idx, loop_state))
  /\ step' = [kind |-> "rules", r0 |-> r,
              r_end |-> rules_extent(ws, c1, c2, r_end, merge_idx,
                                     rules_title(first_of(ws, c1, c2, merge_idx, r)), r)]
  /\ r_end' = r_end
  /\ IterationFrame

\* lines 521-527: a RANK- or RINK- marker
RewardsRow ==
  /\ pc = "scan"
  /\ r <= r_end
  /\ dispatch(ws, c1, c2, merge_idx, r) = "rewards"
  /\ SetLoop(rewards_branch(ws, c1, c2, r_end, merge_idx, loop_state))
  /\ step' = [kind |-> "rewards", r0 |-> r, r_end |-> r_end]
  /\ r_end' = r_end
  /\ IterationFrame

\* lines 528-580: any other row becomes a fallback paragraph
FallbackRow ==
  /\ pc = "scan"
  /\ r <= r_end
  /\ dispatch(ws, c1, c2, merge_idx, r) = "fallback"
  /\ SetLoop(fallback_branch(ws, c1, c2, merge_idx, loop_state))
  /\ step' = [kind |-> "fallback", r0 |-> r, r_end |-> r_end]
  /\ r_end' = r_end
  /\ IterationFrame

\* lines 645-673: parse_section_block has returned; the block is appended
BlockFinish ==
  /\ pc = "scan"
  /\ r > r_end
  /\ blocks' = Append(blocks, make_block(titles[ti][1], titles[ti][2], sections,
                                         block_free_paragraphs))
  /\ ti' = ti + 1
  /\ pc' = "title"
  /\ UNCHANGED <<ws, merge_idx, regions, ri, titles, pages, bvars, fvars>>

\* lines 675-682: the page of the region is appended
PageFinish ==
  /\ pc = "title"
  /\ ti > Len(titles)
  /\ pages' = Append(pages, make_page(regions[ri], blocks))
  /\ ri' = ri + 1
  /\ pc' = "region"
  /\ UNCHANGED <<ws, merge_idx, regions, titles, ti, blocks, bvars, fvars>>

\* line 683: return {"pages": pages}
ParseSheetReturn ==
  /\ pc = "region"
  /\ ri > Len(regions)
  /\ pc' = "done"
  /\ UNCHANGED <<ws, merge_idx, regions, ri, titles, ti, blocks, pages, bvars, fvars>>

NextSheet ==
  \/ ParseSheetStart
  \/ RegionStart
  \/ BlockStart
  \/ BlankRow
  \/ TableRow
  \/ RulesRow
  \/ RewardsRow
  \/ FallbackRow
  \/ BlockFinish
  \/ PageFinish
  \/ ParseSheetReturn

(***************************************************************************)
(* parse_file and the handler parse_excel as a state machine.              *)
(***************************************************************************)
\* `if sheet:` - None and the empty string are both false
truthy(v) == v # None /\ v # <<>>

sheetnames(book) == [i \in 1..Len(book) |-> book[i].name]

in_list(x, xs) == \E i \in 1..Len(xs) : xs[i] = x

\* wb[sheet]
worksheet(book, name) == book[CHOOSE i \in 1..Len(book) : book[i].name = name].ws

\* lines 718-725: the named sheet is parsed or skipped, and parse_file returns
ParseFileNamed ==
  /\ fpc = "call"
  /\ truthy(sheet)
  /\ in_list(sheet, sheetnames(wb))
  /\ IF has_region_marker(worksheet(wb, sheet))
     THEN /\ sheets_result' = <<<<sheet, parse_sheet(worksheet(wb, sheet))>>>>
          /\ skipped' = skipped
     ELSE /\ sheets_result' = sheets_result
          /\ skipped' = Append(skipped, sheet)
  /\ returned' = <<[sheets |-> sheets_result', skipped_sheets |-> skipped']>>
  /\ fpc' = "returned"
  /\ UNCHANGED <<wb, sheet, fi, raised, response, svars, bvars>>

\* a parse_file that reports an absent sheet as skipped instead of raising
ParseFileNotFound_skipped ==
  /\ fpc = "call"
  /\ truthy(sheet)
  /\ ~in_list(sheet, sheetnames(wb))
  /\ skipped' = Append(skipped, sheet)
  /\ returned' = <<[sheets |-> sheets_result, skipped_sheets |-> skipped']>>
  /\ fpc' = "returned"
  /\ UNCHANGED <<wb, sheet, fi, sheets_result, raised, response, svars, bvars>>

\* lines 726-727: raise ValueError
ParseFileNotFound ==
  /\ fpc = "call"
  /\ truthy(sheet)
  /\ ~in_list(sheet, sheetnames(wb))
  /\ raised' = <<[type |-> "ValueError", sheet |-> sheet]>>
  /\ fpc' = "raised"
  /\ UNCHANGED <<wb, sheet, fi, sheets_result, skipped, returned, response, svars, bvars>>

\* a loop that puts a skipped sheet in front of the list instead of behind it
ParseFileLoop_prepend ==
  /\ fpc = "call"
  /\ ~truthy(sheet)
  /\ fi <= Len(wb)
  /\ IF has_region_marker(wb[fi].ws)
     THEN /\ sheets_result' = Append(sheets_result, <<wb[fi].name, parse_sheet(wb[fi].ws)>>)
          /\ skipped' = skipped
     ELSE /\ sheets_result' = sheets_result
          /\ skipped' = <<wb[fi].name>> \o skipped
  /\ fi' = fi + 1
  /\ UNCHANGED <<wb, sheet, fpc, raised, returned, response, svars, bvars>>

\* lines 730-735: one iteration of the loop over wb.sheetnames
ParseFileLoop ==
  /\ fpc = "call"
  /\ ~truthy(sheet)
  /\ fi <= Len(wb)
  /\ IF has_region_marker(wb[fi].ws)
     THEN /\ sheets_result' = Append(sheets_result, <<wb[fi].name, parse_sheet(wb[fi].ws)>>)
          /\ skipped' = skipped
     ELSE /\ sheets_result' = sheets_result
          /\ skipped' = Append(skipped, wb[fi].name)
  /\ fi' = fi + 1
  /\ UNCHANGED <<wb, sheet, fpc, raised, returned, response, svars, bvars>>

\* lines 737-740: the loop is over, parse_file returns
ParseFileReturn ==
  /\ fpc = "call"
  /\ ~truthy(sheet)
  /\ fi > Len(wb)
  /\ returned' = <<[sheets |-> sheets_result, skipped_sheets |-> skipped]>>
  /\ fpc' = "returned"
  /\ UNCHANGED <<wb, sheet, fi, sheets_result, skipped, raised, response, svars, bvars>>

\* main.py lines 83-111: the response of a parse that returned.  The images
\* and blob_store_size come from collaborators outside this model.
RespondOk ==
  /\ fpc = "returned"
  /\ response' = <<[ok |-> TRUE,
                    sheets |-> [i \in 1..Len(returned[1].sheets) |->
                                  <<returned[1].sheets[i][1],
                                    [result |-> returned[1].sheets[i][2]]>>],
                    skipped_sheets |-> returned[1].skipped_sheets]>>
  /\ fpc' = "responded"
  /\ UNCHANGED <<wb, sheet, fi, sheets_result, skipped, raised, returned, svars, bvars>>

\* main.py lines 112-116: any exception becomes an ok=false response
RespondError ==
  /\ fpc = "raised"
  /\ response' = <<[ok |-> FALSE, error |-> raised[1]]>>
  /\ fpc' = "responded"
  /\ UNCHANGED <<wb, sheet, fi, sheets_result, skipped, raised, returned, svars, bvars>>

NextFile ==
  \/ ParseFileNamed
  \/ ParseFileNotFound
  \/ ParseFileLoop
  \/ ParseFileReturn
  \/ RespondOk
  \/ RespondError

(***************************************************************************)
(* Inputs: generated worksheets and workbooks.                             *)
(***************************************************************************)
E == <<>>
Ta == <<"a">>
Tb == <<"b">>
Tt == <<"p", "r", "i", "z", "e">>

mk_cell(v) == [value |-> v, alignment |-> NoAlign, bold |-> FALSE]

\* a worksheet from rows of texts; the children of a merge hold no value
mk_sheet(rows, merged) ==
  [max_row |-> Len(rows),
   max_column |-> Len(rows[1]),
   cells |-> [i \in 1..Len(rows) |->
                [j \in 1..Len(rows[1]) |->
                   IF \E mr \in merged : /\ mr[1] <= i /\ i <= mr[3]
                                         /\ mr[2] <= j /\ j <= mr[4]
                                         /\ <<i, j>> # <<mr[1], mr[2]>>
                   THEN EmptyCell ELSE mk_cell(rows[i][j])]],
   merged |-> merged]

\* a row of texts widened to MaxCol columns
pad(row) == row \o [i \in 1..(MaxCol - Len(row)) |-> E]

\* the rows below the TITLE- row of a generated block sheet
ContentRows ==
  {<<E, E, E>>,
   <<RULES_ \o Ta, Ta, E>>,
   <<RULES_ \o Tb, Tb, E>>,
   <<E, Ta, E>>,
   <<E, Tb>> \o [i \in 1..(MaxCol - 2) |-> Ta],
   <<E, TABLE_, E>>,
   <<TABLE_, Ta, E>>,
   <<RANK_ \o Ta, Ta, Tb>>,
   <<RANK_ \o Ta, E, E>>,
   <<TITLE_ \o <<"P", "r", "i", "z", "e">>, TITLE_ \o <<"x">>, E>>}

\* the merges of a generated block sheet, besides the REGION- marker's own
ContentMerges ==
  {{}, {<<3, 1, 4, 1>>}, {<<3, 2, 3, 3>>}, {<<3, 3, 4, 3>>}, {<<3, 1, 3, 2>>},
   {<<4, 2, 5, 3>>}}

\* REGION-A merged over every column, TITLE-x below it, then the content rows
BlockSheets ==
  {mk_sheet(<<pad(<<REGION_ \o <<"A">>, E, E>>), pad(<<TITLE_ \o <<"x">>, Tt, E>>)>>
            \o [i \in 1..MaxBlockRows |-> pad(f[i])],
            {<<1, 1, 1, MaxCol>>} \cup m) :
     f \in [1..MaxBlockRows -> ContentRows], m \in ContentMerges}

\* the rows of a generated region sheet
RegionRows ==
  {<<REGION_ \o <<"A">>, E, REGION_ \o <<"B">>>>,
   <<E, REGION_ \o <<"A">>, E>>,
   <<TITLE_ \o <<"x">>, Tt, TITLE_ \o <<"y">>>>,
   <<TITLE_ \o <<"y">>, TITLE_ \o <<"x">>, E>>,
   <<E, Ta, Ta>>,
   <<E, E, E>>}

\* the merges of a generated region sheet
RegionMerges == {{}, {<<1, 1, 1, 2>>}, {<<1, 1, 2, 1>>}, {<<2, 1, 3, 1>>}}

\* markers of several regions and titles anywhere in the first rows
RegionSheets ==
  {mk_sheet([i \in 1..MaxRegionRows |-> pad(f[i])], m) :
     f \in [1..MaxRegionRows -> RegionRows], m \in RegionMerges}

\* sheets of a generated workbook: first rows with and without a marker
FileSheets ==
  {mk_sheet(<<<<REGION_ \o <<"A">>, E>>, <<TITLE_ \o <<"x">>, Tt>>, <<RANK_ \o Ta, Ta>>>>, {}),
   mk_sheet(<<<<<<"x">>, <<" ">> \o REGION_ \o <<"B">>>>>>, {}),
   mk_sheet(<<<<E, E>>, <<REGION_ \o <<"A">>, E>>>>, {}),
   mk_sheet(<<<<<<"=", "\"">> \o REGION_ \o <<"A", "\"">>, E>>>>, {}),
   mk_sheet(<<<<<<"x">>, E>>>>, {})}

\* the name of the i-th sheet of a generated workbook
SheetName(i) == [k \in 1..i |-> "S"]

Workbooks ==
  UNION {{[i \in 1..n |-> [name |-> SheetName(i), ws |-> f[i]]] : f \in [1..n -> FileSheets]} :
           n \in 1..MaxSheets}

SheetArgs == {None, <<>>} \cup {SheetName(i) : i \in 1..(MaxSheets + 1)}

\* the rows below the marker row of a generated table sheet
TableRows ==
  {<<E, E, E, E>>,
   <<E, Ta, Tb, E>>,
   <<E, E, E, Ta>>,
   <<E, TABLE_, E, E>>,
   <<RANK_ \o Ta, Ta, E, E>>,
   <<RANK_ \o Ta, TABLE_, E, E>>}

\* the merges of a generated table sheet: of the marker cell B3, of data cells,
\* of a cell of the marker row with the cell below it
TableMerges ==
  {{}, {<<4, 2, 5, 3>>}, {<<3, 4, 4, 4>>}, {<<3, 2, 3, 3>>},
   {<<3, 2, 3, 3>>, <<4, 2, 5, 3>>}}

\* REGION-A merged over every column, TITLE-x, a TABLE- marker in B3, then the
\* table rows
TableSheets ==
  {mk_sheet(<<pad(<<REGION_ \o <<"A">>, E, E>>), pad(<<TITLE_ \o <<"x">>, Tt, E>>),
              pad(<<E, TABLE_, E>>)>>
            \o [i \in 1..MaxTableRows |-> pad(f[i])],
            {<<1, 1, 1, MaxCol>>} \cup m) :
     f \in [1..MaxTableRows -> TableRows], m \in TableMerges}

\* the data rows of a generated span sheet
SpanRows == {<<E, E, E>>, <<Ta, Tb, Ta>> \o [i \in 1..(MaxCol - 3) |-> Tb], <<E, E, Tb>>}

\* the marker row of a generated span sheet with the merge of its TABLE- cell:
\* unmerged in C3, merged to the right of the region, merged from the left of
\* the region, merged from the marker column
SpanMarkers ==
  {<<<<E, E, TABLE_>>, {}>>,
   <<<<E, E, TABLE_>>, {<<3, 3, 3, MaxCol>>}>>,
   <<<<TABLE_, E, E>>, {<<3, 1, 3, 3>>}>>,
   <<<<E, TABLE_, E>>, {<<3, 2, 3, 3>>}>>}

\* REGION-A merged over the columns 2..MaxCol - 1, TITLE-x below it, a TABLE-
\* marker row, then two data rows over all the columns of the sheet
SpanSheets ==
  {mk_sheet(<<pad(<<E, REGION_ \o <<"A">>, E>>), pad(<<E, TITLE_ \o <<"x">>, Tt>>),
              pad(mk[1]), pad(f[1]), pad(f[2])>>,
            {<<1, 2, 1, MaxCol - 1>>} \cup mk[2]) :
     f \in [1..2 -> SpanRows], mk \in SpanMarkers}

Tn == <<"n">>
Ti == <<"i">>
Td == <<"d">>
Tx == <<"x">>

\* a cell with a horizontal alignment
al(v, a) == [value |-> v, alignment |-> a, bold |-> FALSE]

\* a worksheet from rows of cells; the children of a merge hold no value
mk_grid(rows, merged) ==
  [max_row |-> Len(rows),
   max_column |-> Len(rows[1]),
   cells |-> [i \in 1..Len(rows) |->
                [j \in 1..Len(rows[1]) |->
                   IF \E mr \in merged : /\ mr[1] <= i /\ i <= mr[3]
                                         /\ mr[2] <= j /\ j <= mr[4]
                                         /\ <<i, j>> # <<mr[1], mr[2]>>
                   THEN EmptyCell ELSE rows[i][j]]],
   merged |-> merged]

\* a row of cells widened to MaxCol + 1 columns: the marker column, the name,
\* image and description columns, and at least one column more
pad_cells(row) == row \o [i \in 1..(MaxCol + 1 - Len(row)) |-> EmptyCell]

\* the content rows of a generated item sheet
ItemRows ==
  {<<mk_cell(E), mk_cell(E), mk_cell(E), mk_cell(E), mk_cell(E)>>,
   <<mk_cell(RANK_ \o Ta), mk_cell(Tn), mk_cell(Ti), mk_cell(Td), mk_cell(E)>>,
   <<mk_cell(RANK_ \o Ta), mk_cell(E), mk_cell(E), mk_cell(E), mk_cell(E)>>,
   <<mk_cell(RINK_ \o Tb), mk_cell(Tn), mk_cell(E), mk_cell(E), mk_cell(E)>>,
   <<mk_cell(E), mk_cell(E), al(Ti, "center"), mk_cell(E), al(Tx, "right")>>,
   <<mk_cell(E), mk_cell(E), mk_cell(E), al(Td, "right"), al(Tx, "left")>>,
   <<mk_cell(E), mk_cell(E), mk_cell(E), mk_cell(E), mk_cell(Tx)>>,
   <<mk_cell(E), al(Tn, "left"), al(Ti, "center"), mk_cell(E), mk_cell(E)>>,
   <<mk_cell(RULES_ \o Ta), al(Ta, "center"), al(Tb, "right"), mk_cell(E), mk_cell(E)>>}

\* the merges of a generated item sheet: none, or the name cells of rows 3-4
ItemMerges == {{}, {<<3, 2, 4, 2>>}}

\* REGION-A merged over every column, TITLE-x, then the content rows
ItemSheets ==
  {mk_grid(<<pad_cells(<<mk_cell(REGION_ \o <<"A">>)>>),
             pad_cells(<<mk_cell(TITLE_ \o <<"x">>), mk_cell(Tt)>>)>>
           \o [i \in 1..MaxItemRows |-> pad_cells(f[i])],
           {<<1, 1, 1, MaxCol + 1>>} \cup m) :
     f \in [1..MaxItemRows -> ItemRows], m \in ItemMerges}

\* the characters of a generated region code
CodeLetters == {"M", "E", "C", "A", "U", "S", "s", "a"}

\* region codes of up to MaxCodeLen characters, the empty code among them
Codes == UNION {[1..n -> CodeLetters] : n \in 0..MaxCodeLen}

\* a sheet that is one REGION-<code> cell
CodeSheets == {mk_sheet(<<<<REGION_ \o code>>>>, {}) : code \in Codes}

(***************************************************************************)
(* Specifications.                                                         *)
(***************************************************************************)
IdleFile ==
  /\ wb = <<>> /\ sheet = None /\ fpc = "idle" /\ fi = 0
  /\ sheets_result = <<>> /\ skipped = <<>>
  /\ raised = Nothing /\ returned = Nothing /\ response = Nothing

IdleSheet ==
  /\ merge_idx = <<>> /\ regions = <<>> /\ ri = 0 /\ titles = <<>> /\ ti = 0
  /\ blocks = <<>> /\ pages = <<>>
  /\ c1 = 0 /\ c2 = 0 /\ r_start = 0 /\ r_end = 0 /\ r = 0
  /\ sections = <<>> /\ block_free_paragraphs = <<>>
  /\ step = [kind |-> "none", r0 |-> 0, r_end |-> 0]
  /\ calls = <<>>
  /\ trail = <<>>

\* parse_sheet is called on a generated sheet
Init ==
  /\ ws \in BlockSheets \cup RegionSheets
  /\ pc = "start"
  /\ IdleSheet
  /\ IdleFile

Next == NextSheet

Spec == Init /\ [][Next]_vars

\* parse_excel is called on a generated workbook
InitFile ==
  /\ wb \in Workbooks
  /\ sheet \in SheetArgs
  /\ fpc = "call" /\ fi = 1
  /\ sheets_result = <<>> /\ skipped = <<>>
  /\ raised = Nothing /\ returned = Nothing /\ response = Nothing
  /\ ws = Nothing /\ pc = "idle"
  /\ IdleSheet

SpecFile == InitFile /\ [][NextFile]_vars

\* parse_sheet is called on a generated table sheet, item sheet or span sheet
InitCollect ==
  /\ ws \in TableSheets \cup ItemSheets \cup SpanSheets
  /\ pc = "start"
  /\ IdleSheet
  /\ IdleFile

SpecCollect == InitCollect /\ [][NextSheet]_vars

\* parse_sheet is called on a sheet that is one region marker: no title, hence
\* no call of parse_section_block
InitRegion ==
  /\ ws \in CodeSheets
  /\ pc = "start"
  /\ IdleSheet
  /\ IdleFile

NextRegion ==
  \/ ParseSheetStart
  \/ RegionStart
  \/ PageFinish
  \/ ParseSheetReturn

SpecRegion == InitRegion /\ [][NextRegion]_vars

(***************************************************************************)
(* Properties of parse_file and parse_excel, checked under SpecFile.       *)
(***************************************************************************)
\* the names of a list of (name, result) pairs
result_names(res) == [i \in 1..Len(res) |-> res[i][1]]

\* the sheets the loop of parse_file has gone through
sheets_done == SubSeq(wb, 1, fi - 1)

\* the first row has a cell whose text, trimmed of surrounding blanks, starts
\* with REGION-
first_row_starts_region(w) ==
  \E col \in 1..w.max_column : startswith(strip(w.cells[1][col].value), REGION_)

\* the first row has a cell whose cleaned text starts with REGION-
first_row_cleaned_region(w) ==
  \E col \in 1..w.max_column : startswith(clean_text(w.cells[1][col].value), REGION_)

\* C1: a call of parse_file with a sheet name that is not among the
\* workbook's sheet names raises ValueError and returns nothing - no sheet is
\* parsed, no sheets/skipped_sheets value is produced, whatever the
\* workbook's sheets contain - and the response of parse_excel is ok=false
\* without sheet data.
C1_AbsentSheetRaises ==
  (truthy(sheet) /\ ~in_list(sheet, sheetnames(wb)) /\ fpc # "call") =>
    /\ raised # Nothing
    /\ raised[1].type = "ValueError"
    /\ returned = Nothing
    /\ sheets_result = <<>>
    /\ skipped = <<>>
    /\ fpc = "responded" =>
         /\ response[1].ok = FALSE
         /\ "sheets" \notin DOMAIN response[1]
         /\ "skipped_sheets" \notin DOMAIN response[1]

\* C1 witness: an absent sheet name was asked of a two-sheet workbook whose
\* first sheet has a region marker, and the error response is out
C1_Witness ==
  /\ fpc = "responded"
  /\ truthy(sheet)
  /\ ~in_list(sheet, sheetnames(wb))
  /\ Len(wb) = 2
  /\ has_region_marker(wb[1].ws)
  /\ response[1].ok = FALSE

\* C2: without a sheet filter the result partitions the sheets gone through:
\* 'sheets' holds, in workbook order, exactly the sheets for which
\* has_region_marker is true, 'skipped_sheets' holds, in workbook order,
\* exactly the others, and a sheet whose first row has no cell starting with
\* REGION- is only in 'skipped_sheets'; the returned value is these two lists
\* over the whole workbook.
C2_SheetsPartition ==
  (~truthy(sheet) /\ fpc \in {"call", "returned", "responded"}) =>
    /\ result_names(sheets_result)
         = sheetnames(SelectSeq(sheets_done, LAMBDA e : has_region_marker(e.ws)))
    /\ skipped = sheetnames(SelectSeq(sheets_done, LAMBDA e : ~has_region_marker(e.ws)))
    /\ \A i \in 1..Len(sheets_done) :
         /\ in_list(sheets_done[i].name, result_names(sheets_result))
              # in_list(sheets_done[i].name, skipped)
         /\ ~first_row_starts_region(sheets_done[i].ws) =>
              /\ in_list(sheets_done[i].name, skipped)
              /\ ~in_list(sheets_done[i].name, result_names(sheets_result))
    /\ \A i \in 1..Len(sheets_result) :
         sheets_result[i][2] = parse_sheet(worksheet(wb, sheets_result[i][1]))
    /\ fpc # "call" =>
         /\ fi = Len(wb) + 1
         /\ returned[1] = [sheets |-> sheets_result, skipped_sheets |-> skipped]

\* C2 witness: parse_file returned for a two-sheet workbook whose first sheet
\* was skipped and whose second sheet was parsed
C2_Witness ==
  /\ fpc = "returned"
  /\ ~truthy(sheet)
  /\ Len(wb) = 2
  /\ skipped = <<wb[1].name>>
  /\ result_names(sheets_result) = <<wb[2].name>>

\* C3: has_region_marker is true of a sheet if and only if a cell of its
\* first row has cleaned text (clean_text) starting with REGION-; so a sheet
\* gone through by parse_file is skipped if and only if no first-row cell
\* is one that find_regions accepts.
C3_MarkerAfterCleaning ==
  (~truthy(sheet) /\ fpc \in {"call", "returned", "responded"}) =>
    \A i \in 1..Len(sheets_done) :
      /\ has_region_marker(sheets_done[i].ws) <=> first_row_cleaned_region(sheets_done[i].ws)
      /\ in_list(sheets_done[i].name, skipped)
           <=> ~first_row_cleaned_region(sheets_done[i].ws)

(***************************************************************************)
(* Properties of parse_sheet, checked under Spec.                          *)
(***************************************************************************)
\* the cleaned text of the cell that (row, col) resolves to, in the sheet
\* being parsed
text_at(w, row, col) == clean_text(get_value(w, row, col, merge_idx))

\* the distinct region tuples (code, row, col_start, col_end) of a sheet: one
\* for every cell whose text starts with REGION-, placed at its merge origin
RegionTuples(w) ==
  {<<strip(split_last(text_at(w, p[1], p[2]), REGION_)),
     rect_of(merge_idx, p[1], p[2])[1],
     rect_of(merge_idx, p[1], p[2])[2],
     rect_of(merge_idx, p[1], p[2])[4]>> :
     p \in {q \in (1..w.max_row) \X (1..w.max_column) :
              startswith(text_at(w, q[1], q[2]), REGION_)}}

\* the rows below a region's marker with a TITLE- cell inside its column span
TitleRows(w, region) ==
  {row \in (region.row + 1)..w.max_row :
     \E col \in region.col_start..region.col_end : startswith(text_at(w, row, col), TITLE_)}

\* the leftmost column of the span of a region with a TITLE- cell in a row
LeftmostTitleCol(w, region, row) ==
  CHOOSE col \in region.col_start..region.col_end :
    /\ startswith(text_at(w, row, col), TITLE_)
    /\ \A other \in region.col_start..(col - 1) : ~startswith(text_at(w, row, other), TITLE_)

\* C4: parse_sheet emits exactly one page per distinct region tuple (code,
\* row, col_start, col_end) - a merged REGION- marker gives one page, a sheet
\* without a REGION- cell gives no page - and the pages are in ascending
\* order of col_start, ties broken by ascending row.
C4_OnePagePerRegion ==
  (pc \in {"region", "done"}) =>
    LET tuples == RegionTuples(ws)
    IN /\ {region_key(regions[i]) : i \in 1..Len(regions)} = tuples
       /\ Len(regions) = Cardinality(tuples)
       /\ \A i, j \in 1..Len(regions) :
            i < j => \/ regions[i].col_start < regions[j].col_start
                     \/ /\ regions[i].col_start = regions[j].col_start
                        /\ regions[i].row < regions[j].row
       /\ \A i \in 1..Len(pages) : pages[i].region = regions[i].code
       /\ Len(pages) = ri - 1
       /\ pc = "done" =>
            /\ Len(pages) = Cardinality(tuples)
            /\ tuples = {} => pages = <<>>

\* C4 witness: parse_sheet returned three pages; the first region's marker is
\* a merged cell that lies below the second region's marker
C4_Witness ==
  /\ pc = "done"
  /\ Len(pages) = 3
  /\ <<regions[1].row, regions[1].col_start>> \in DOMAIN merge_idx
  /\ regions[1].row > regions[2].row

\* C5: within one region there is exactly one title, hence one block, per row
\* below the marker with a TITLE- cell in the region's span, taken from the
\* leftmost such cell, in ascending row order; block i is parsed from rows
\* [title[i].row + 1, title[i+1].row - 1], the last block to the sheet's last
\* row; the row ranges are pairwise disjoint, hold no title row, and cover
\* every other row below the first title.
C5_BlocksFollowTitles ==
  (pc = "title") =>
    LET rows == TitleRows(ws, regions[ri])
    IN /\ {titles[i][3] : i \in 1..Len(titles)} = rows
       /\ \A i, j \in 1..Len(titles) : i < j => titles[i][3] < titles[j][3]
       /\ \A i \in 1..Len(titles) :
            titles[i][1] = strip(split_last(text_at(ws, titles[i][3],
                                                    LeftmostTitleCol(ws, regions[ri], titles[i][3])),
                                            TITLE_))
       /\ Len(blocks) = ti - 1
       /\ Len(calls) = ti - 1
       /\ \A k \in 1..Len(calls) :
            calls[k] = <<titles[k][3] + 1,
                         IF k < Len(titles) THEN titles[k + 1][3] - 1 ELSE ws.max_row>>
       /\ \A k, l \in 1..Len(calls) :
            k # l => (calls[k][1]..calls[k][2]) \cap (calls[l][1]..calls[l][2]) = {}
       /\ \A k \in 1..Len(calls) : (calls[k][1]..calls[k][2]) \cap rows = {}
       /\ (ti > Len(titles) /\ titles # <<>>) =>
            /\ Len(blocks) = Cardinality(rows)
            /\ UNION {calls[k][1]..calls[k][2] : k \in 1..Len(calls)}
                 = ((titles[1][3] + 1)..ws.max_row) \ rows

\* C5 witness: every block of a region with two titles has been parsed, the
\* first block has a row, and the second title row has two TITLE- cells
C5_Witness ==
  /\ pc = "title"
  /\ ti > Len(titles)
  /\ Len(titles) = 2
  /\ titles[2][3] > titles[1][3] + 1
  /\ Len(blocks) = 2
  /\ \E ca, cb \in c1..c2 :
       /\ ca < cb
       /\ startswith(text_at(ws, titles[2][3], ca), TITLE_)
       /\ startswith(text_at(ws, titles[2][3], cb), TITLE_)

\* (row, col) is an unmerged cell or the top-left cell of its merge rectangle
origin_or_unmerged(row, col) ==
  \/ <<row, col>> \notin DOMAIN merge_idx
  \/ /\ merge_idx[<<row, col>>][1] = row
     /\ merge_idx[<<row, col>>][2] = col

\* the section the last collector appended
last_section == sections[Len(sections)]

\* parse_section_block has returned and its block is the last of `blocks`
block_finished == pc = "title" /\ ti > 1 /\ Len(blocks) = ti - 1

\* C6: every coordinate in the output metadata is an unmerged cell or the
\* top-left cell of the merge rectangle covering it: (_row, _col) of every
\* emitted table cell and (_row, _img_col) of every reward item.
C6_MetadataAtMergeOrigin ==
  (pc = "scan") =>
    \A i \in 1..Len(sections) :
      /\ "table" \in DOMAIN sections[i] =>
           \A k \in 1..Len(sections[i].table.rows) :
             \A n \in 1..Len(sections[i].table.rows[k]) :
               origin_or_unmerged(sections[i].table.rows[k][n]._row,
                                  sections[i].table.rows[k][n]._col)
      /\ \A k \in 1..Len(sections[i].rewards) :
           origin_or_unmerged(sections[i].rewards[k]._row, sections[i].rewards[k]._img_col)

\* the paragraph the rules collector builds for a row, before deduplication
rules_paragraph(row) ==
  rules_runs(row_cells_info(ws, row, c1, c2, merge_idx),
             row_region_values(ws, row, c1, c2, merge_idx), 2, {}, "left", <<>>)

\* the rows of first..last whose paragraph a rules section keeps: blank rows,
\* and rows whose key no earlier row of the collection has
RECURSIVE kept_paragraphs(_, _, _)
kept_paragraphs(first, row, last) ==
  IF row > last THEN <<>>
  ELSE (IF rules_paragraph(row).runs = <<>> THEN <<BlankParagraph>>
        ELSE IF \E earlier \in first..(row - 1) :
                  line_key(rules_paragraph(earlier).runs) = line_key(rules_paragraph(row).runs)
             THEN <<>>
             ELSE <<rules_paragraph(row)>>)
       \o kept_paragraphs(first, row + 1, last)

\* C7: in a rules section the rows with the same run-text key give one
\* paragraph: the section holds, in row order, the paragraph of every
\* collected row but those whose key an earlier row had, so no two non-blank
\* paragraphs have the same run texts; a duplicated row does not end the
\* collection: the collector stops inside its extent only at a blank row, a
\* TITLE-/RANK-/RINK- row or a row with a TABLE- cell in a content column.
C7_RulesRowsDeduplicated ==
  (pc = "scan" /\ step.kind = "rules") =>
    /\ last_section.paragraphs = kept_paragraphs(step.r0, step.r0, r - 1)
    /\ \A i, j \in 1..Len(last_section.paragraphs) :
         (/\ i < j
          /\ last_section.paragraphs[i] # BlankParagraph
          /\ last_section.paragraphs[j] # BlankParagraph)
         => run_texts(last_section.paragraphs[i].runs) # run_texts(last_section.paragraphs[j].runs)
    /\ r > step.r0
    /\ r <= step.r_end =>
         \/ is_row_blank(row_region_values(ws, r, c1, c2, merge_idx))
         \/ is_title_or_rank(first_of(ws, c1, c2, merge_idx, r))
         \/ has_table(rest_of_row(row_region_values(ws, r, c1, c2, merge_idx)))

\* C7 witness: a rules section of three collected rows whose second row
\* repeats the first and whose third row is the second paragraph
C7_Witness ==
  /\ pc = "scan"
  /\ step.kind = "rules"
  /\ r = step.r0 + 3
  /\ line_key(rules_paragraph(step.r0).runs) = line_key(rules_paragraph(step.r0 + 1).runs)
  /\ rules_paragraph(step.r0).runs # <<>>
  /\ Len(last_section.paragraphs) = 2
  /\ last_section.paragraphs[2] = rules_paragraph(step.r0 + 2)

\* the leftmost column of the region whose cell in the marker row starts
\* with TABLE-
TableMarkerCol(row) ==
  CHOOSE col \in c1..c2 :
    /\ startswith(text_at(ws, row, col), TABLE_)
    /\ \A other \in c1..(col - 1) : ~startswith(text_at(ws, row, other), TABLE_)

\* the column span the marker row fixes for the table
TableSpan(row) ==
  IF <<row, TableMarkerCol(row)>> \in DOMAIN merge_idx
  THEN <<IF merge_idx[<<row, TableMarkerCol(row)>>][2] = c1
         THEN merge_idx[<<row, TableMarkerCol(row)>>][2] + 1
         ELSE merge_idx[<<row, TableMarkerCol(row)>>][2],
         merge_idx[<<row, TableMarkerCol(row)>>][4]>>
  ELSE <<c1 + 1, c2>>

\* the columns of a span at which a data row has a cell of its own
own_columns(row, span) == {col \in span[1]..span[2] : origin_or_unmerged(row, col)}

\* C8: the column span of a table is fixed at its marker row: the columns
\* [m1, m2] of the merged marker cell, without m1 when it is the region's
\* start column, and [region start + 1, region end] for an unmerged marker
\* cell; every data row is read from exactly this span, and no emitted cell
\* has a source column outside it.
C8_TableSpanFixedAtMarker ==
  (pc = "scan" /\ step.kind = "table") =>
    \A k \in 1..Len(last_section.table.rows) :
      /\ {last_section.table.rows[k][n]._col : n \in 1..Len(last_section.table.rows[k])}
           = own_columns(step.r0 + k, TableSpan(step.r0))
      /\ Len(last_section.table.rows[k])
           = Cardinality(own_columns(step.r0 + k, TableSpan(step.r0)))
      /\ \A n \in 1..Len(last_section.table.rows[k]) :
           /\ last_section.table.rows[k][n]._row = step.r0 + k
           /\ last_section.table.rows[k][n]._col \in TableSpan(step.r0)[1]..TableSpan(step.r0)[2]
           /\ last_section.table.rows[k][n].value
                = text_at(ws, step.r0 + k, last_section.table.rows[k][n]._col)
           /\ n > 1 => last_section.table.rows[k][n - 1]._col < last_section.table.rows[k][n]._col

\* C8 witness: a table with a data row under a marker cell merged from the
\* region's start column, so that the span is narrower than the region
C8_Witness ==
  /\ pc = "scan"
  /\ step.kind = "table"
  /\ <<step.r0, TableMarkerCol(step.r0)>> \in DOMAIN merge_idx
  /\ TableMarkerCol(step.r0) = c1
  /\ TableSpan(step.r0)[2] < c2
  /\ Len(last_section.table.rows) >= 1
  /\ last_section.table.rows[1] # <<>>

\* a section the reward collector or the merger made
is_reward_section(s) ==
  \/ s.rewards # <<>>
  \/ "content" \in DOMAIN s /\ "table" \notin DOMAIN s

\* the items of the reward sections titled `title` from section i on, in order
RECURSIVE items_titled(_, _, _)
items_titled(secs, title, i) ==
  IF i > Len(secs) THEN <<>>
  ELSE (IF is_reward_section(secs[i]) /\ secs[i].title = title THEN secs[i].rewards ELSE <<>>)
       \o items_titled(secs, title, i + 1)

\* what merging preserves of a section: the title and the items of a reward
\* section, everything of another section
section_view(s) == IF is_reward_section(s) THEN [title |-> s.title, rewards |-> s.rewards] ELSE s

\* the sections a block has when the reward sections of one title are one
\* section, placed where the first of them was
RECURSIVE sections_merged_by_title(_, _)
sections_merged_by_title(secs, i) ==
  IF i > Len(secs) THEN <<>>
  ELSE (IF ~is_reward_section(secs[i]) THEN <<secs[i]>>
        ELSE IF \E j \in 1..(i - 1) :
                  is_reward_section(secs[j]) /\ secs[j].title = secs[i].title
             THEN <<>>
             ELSE <<[title |-> secs[i].title,
                     rewards |-> items_titled(secs, secs[i].title, i)]>>)
       \o sections_merged_by_title(secs, i + 1)

\* C9: after merge_reward_sections no two reward sections of a block have
\* the same title, the merged section is where the first of its title was,
\* it holds the items of all of them in first-seen order, the number of
\* items is unchanged, and every other section is passed through unchanged
\* and in order.
C9_RewardSectionsMerged ==
  (block_finished /\ sections # <<>>) =>
    /\ \A i, j \in 1..Len(blocks[ti - 1].sections) :
         (/\ i < j
          /\ is_reward_section(blocks[ti - 1].sections[i])
          /\ is_reward_section(blocks[ti - 1].sections[j]))
         => blocks[ti - 1].sections[i].title # blocks[ti - 1].sections[j].title
    /\ [i \in 1..Len(blocks[ti - 1].sections) |-> section_view(blocks[ti - 1].sections[i])]
         = sections_merged_by_title(sections, 1)
    /\ total_rewards(blocks[ti - 1].sections) = total_rewards(sections)

\* whether a text has the keyword kw somewhere, letter case apart
has_keyword(text, kw) ==
  \E i \in 1..Len(text) :
    /\ i + Len(kw) - 1 <= Len(text)
    /\ lower(SubSeq(text, i, i + Len(kw) - 1)) = kw

\* C10: the type of a block is 'rewards' if and only if its merged sections
\* hold a reward item or the type text of its TITLE- marker contains, letter
\* case apart, one of the reward keywords; otherwise it is 'rules'.
C10_BlockTypeFromItemsOrKeyword ==
  block_finished =>
    /\ blocks[ti - 1].block_type \in {"rewards", "rules"}
    /\ blocks[ti - 1].block_type = "rewards"
         <=> \/ \E i \in 1..Len(blocks[ti - 1].sections) :
                  blocks[ti - 1].sections[i].rewards # <<>>
             \/ \E kw \in reward_keywords : has_keyword(titles[ti - 1][1], kw)

\* C10 witness: a block without reward items under the marker TITLE-Prize is
\* typed 'rewards', after a block with rules text only under TITLE-x, whose
\* title text is "prize", typed 'rules'
C10_Witness ==
  /\ block_finished
  /\ ti = 3
  /\ titles[2][1] = <<"P", "r", "i", "z", "e">>
  /\ blocks[2].block_type = "rewards"
  /\ \A i \in 1..Len(blocks[2].sections) : blocks[2].sections[i].rewards = <<>>
  /\ titles[1][2] = <<"p", "r", "i", "z", "e">>
  /\ blocks[1].block_type = "rules"
  /\ \E i \in 1..Len(blocks[1].sections) : "paragraphs" \in DOMAIN blocks[1].sections[i]

\* the cleaned texts of a row of the block over the region's columns
row_texts(row) == [i \in 1..(c2 - c1 + 1) |-> text_at(ws, row, c1 + i - 1)]

\* a row none of whose cells starts with a marker
unmarked(row) ==
  \A i \in 1..Len(row_texts(row)) :
    \A m \in {TITLE_, RULES_, RANK_, RINK_, TABLE_} : ~startswith(row_texts(row)[i], m)

\* C12: a single blank row does not end a rules section: the rules collector
\* does not return at a blank row that is followed, inside the block, by a
\* non-blank row without a marker - such a blank row becomes a blank paragraph
\* and the row after it is collected into the same section; the collector
\* returns at a blank row only when the next row is blank too or has a marker,
\* or when the block ends.
C12_SingleBlankRowKept ==
  (/\ pc = "scan"
   /\ step.kind = "rules"
   /\ r <= r_end
   /\ is_row_blank(row_texts(r)))
  => \/ r + 1 > r_end
     \/ is_row_blank(row_texts(r + 1))
     \/ ~unmarked(r + 1)

\* the columns of the region whose cell in a row starts with TABLE-
table_cols(row) == {col \in c1..c2 : startswith(text_at(ws, row, col), TABLE_)}

\* C13: a row of the scanning loop in which a cell of the region's span starts
\* with TABLE- starts a table section, whatever the marker column holds
\* (table detection comes before the RULES-/RANK-/RINK- dispatch); when the
\* only TABLE- cell is an unmerged cell of the marker column, the table spans
\* the region's columns from the second to the last.
C13_TableMarkerAnywhere ==
  (/\ pc = "scan"
   /\ step.kind \in {"blank", "table", "rules", "rewards", "fallback"}
   /\ table_cols(step.r0) # {})
  => /\ step.kind = "table"
     /\ sections # <<>>
     /\ "table" \in DOMAIN last_section
     /\ (table_cols(step.r0) = {c1} /\ <<step.r0, c1>> \notin DOMAIN merge_idx) =>
          \A k \in 1..Len(last_section.table.rows) :
            {last_section.table.rows[k][n]._col : n \in 1..Len(last_section.table.rows[k])}
              = own_columns(step.r0 + k, <<c1 + 1, c2>>)

\* the rows after `first`, up to the end of the block, that end a reward list:
\* a blank row, a row whose marker column holds a marker, a row with a TABLE-
\* cell in any column
reward_stop_rows(first) ==
  {row \in (first + 1)..r_end :
     \/ is_row_blank(row_texts(row))
     \/ is_block_marker(text_at(ws, row, c1))
     \/ table_cols(row) # {}}

\* C15: the reward collector returns the first row after its starting row
\* that is blank, carries a block-level marker in the marker column or has a
\* TABLE- cell in the marker column or a content column (the row after the
\* block when there is none), and no such row is turned into a reward item.
C15_RewardsStopAtTable ==
  (pc = "scan" /\ step.kind = "rewards") =>
    /\ r \in (step.r0 + 1)..(r_end + 1)
    /\ \A row \in reward_stop_rows(step.r0) : r <= row
    /\ r <= r_end => r \in reward_stop_rows(step.r0)
    /\ \A k \in 1..Len(last_section.rewards) :
         /\ last_section.rewards[k]._row \in step.r0..(r - 1)
         /\ last_section.rewards[k]._row \notin reward_stop_rows(step.r0)

\* the run texts a row gives as a fallback paragraph: its non-empty content
\* texts without repetition, or one empty text when there are none
RECURSIVE fallback_texts(_, _)
fallback_texts(row, col) ==
  IF col > c2 THEN <<>>
  ELSE (IF \/ text_at(ws, row, col) = <<>>
           \/ \E other \in (c1 + 1)..(col - 1) : text_at(ws, row, other) = text_at(ws, row, col)
        THEN <<>> ELSE <<text_at(ws, row, col)>>)
       \o fallback_texts(row, col + 1)

\* the run texts of the fallback paragraphs of the non-blank rows without a
\* marker among first..last, in row order
RECURSIVE unmarked_paragraphs(_, _)
unmarked_paragraphs(first, last) ==
  IF first > last THEN <<>>
  ELSE (IF (\E i \in 1..Len(row_texts(first)) : row_texts(first)[i] # <<>>) /\ unmarked(first)
        THEN <<IF fallback_texts(first, c1 + 1) = <<>> THEN <<E>>
               ELSE fallback_texts(first, c1 + 1)>>
        ELSE <<>>)
       \o unmarked_paragraphs(first + 1, last)

\* the sections of the block that has just been appended
block_sections == blocks[Len(blocks)].sections

\* C21: fallback content is in the output exactly when no marker matched in
\* the block: when no collector produced a section the block has one section,
\* titled with the title text (the title type when the text is empty), whose
\* paragraphs are those of the non-blank rows without a marker, in row order;
\* when a collector produced a section, every section of the block is a
\* collected section or the merge of collected reward sections, so there is no
\* fallback section and no accumulated fallback paragraph in the block.
C21_FallbackOnlyWithoutSections ==
  block_finished =>
    /\ sections = <<>> =>
         /\ Len(block_sections) = 1
         /\ block_sections[1].title = (IF titles[ti - 1][2] # <<>> THEN titles[ti - 1][2]
                                       ELSE titles[ti - 1][1])
         /\ block_sections[1].rewards = <<>>
         /\ [k \in 1..Len(block_sections[1].paragraphs) |->
               run_texts(block_sections[1].paragraphs[k].runs)]
            = unmarked_paragraphs(r_start, r_end)
    /\ sections # <<>> =>
         /\ Len(block_sections) <= Len(sections)
         /\ \A k \in 1..Len(block_sections) :
              \/ \E i \in 1..Len(sections) : block_sections[k] = sections[i]
              \/ /\ block_sections[k].paragraphs = <<>>
                 /\ block_sections[k].rewards # <<>>
                 /\ \E i \in 1..Len(sections) :
                      /\ sections[i].rewards # <<>>
                      /\ sections[i].title = block_sections[k].title

\* the title of the RULES- marker in the marker column of a row
rules_title_at(row) == strip(split_last(text_at(ws, row, c1), RULES_))

\* a row with a non-empty cell in the region's columns
non_blank(row) == \E col \in c1..c2 : text_at(ws, row, col) # <<>>

\* a row whose marker column holds RULES-<title> or no marker
same_rules_or_no_marker(row, title) ==
  /\ \A m \in {TITLE_, RANK_, RINK_, TABLE_} : ~startswith(text_at(ws, row, c1), m)
  /\ startswith(text_at(ws, row, c1), RULES_) => rules_title_at(row) = title

\* a row with a TABLE- cell in a content column
content_table(row) == \E col \in (c1 + 1)..c2 : startswith(text_at(ws, row, col), TABLE_)

\* the last row of the extent that starts at `row`: the rows after it go on
\* while they are non-blank and hold RULES-<title> or no marker
RECURSIVE marker_extent(_, _, _)
marker_extent(title, row, last) ==
  IF row + 1 <= last /\ non_blank(row + 1) /\ same_rules_or_no_marker(row + 1, title)
  THEN marker_extent(title, row + 1, last) ELSE row

\* the same extent, ended also by a row with a TABLE- cell in a content column
RECURSIVE section_extent(_, _, _)
section_extent(title, row, last) ==
  IF /\ row + 1 <= last /\ non_blank(row + 1) /\ same_rules_or_no_marker(row + 1, title)
     /\ ~content_table(row + 1)
  THEN section_extent(title, row + 1, last) ELSE row

\* the number of sections before the last iteration of the scanning loop
sections_before_last == IF Len(trail) > 1 THEN trail[Len(trail) - 1].sections ELSE 0

\* C22 as stated: the rows of one RULES- extent give exactly one rules
\* section: from a RULES-<title> row on, the following rows that are non-blank
\* and whose marker column holds RULES-<the same title> or no marker belong to
\* the section; the extent ends before the first blank row, the first row
\* whose marker column starts with TITLE-/RANK-/RINK-/TABLE- or the first
\* RULES- row with another title; the collector reads no row beyond it.
C22_RulesExtentOneSection ==
  (pc = "scan" /\ step.kind = "rules") =>
    /\ Len(sections) = sections_before_last + 1
    /\ last_section.title = rules_title_at(step.r0)
    /\ r = marker_extent(rules_title_at(step.r0), step.r0, r_end) + 1
    /\ last_section.paragraphs = kept_paragraphs(step.r0, step.r0, r - 1)

\* C22 amended: a row with a TABLE- cell in a content column ends the extent
\* too (it starts a table): from a RULES-<title> row without such a cell on,
\* the following rows that are non-blank, hold no TABLE- cell in a content
\* column and whose marker column holds RULES-<the same title> or no marker
\* give exactly one rules section, whose paragraphs come from these rows only;
\* the row after the extent is the next the scanning loop looks at, and every
\* RULES- row without a TABLE- cell in a content column that the loop looks at
\* starts a section of its own.
C22_RulesSectionExtent ==
  /\ (pc = "scan" /\ step.kind = "rules") =>
       /\ Len(sections) = sections_before_last + 1
       /\ last_section.title = rules_title_at(step.r0)
       /\ r = section_extent(rules_title_at(step.r0), step.r0, r_end) + 1
       /\ last_section.paragraphs = kept_paragraphs(step.r0, step.r0, r - 1)
  /\ (/\ pc = "scan" /\ step.kind # "start"
      /\ startswith(text_at(ws, step.r0, c1), RULES_)
      /\ ~content_table(step.r0)) => step.kind = "rules"

\* C22 witness: a rules section of two rows, the second without a marker,
\* ended by a row whose only marker is a TABLE- cell in a content column
C22_Witness ==
  /\ pc = "scan"
  /\ step.kind = "rules"
  /\ r = step.r0 + 2
  /\ r <= r_end
  /\ text_at(ws, step.r0 + 1, c1) = <<>>
  /\ non_blank(step.r0 + 1)
  /\ text_at(ws, r, c1) = <<>>
  /\ content_table(r)
  /\ Len(last_section.paragraphs) = 2

\* the end row parse_section_block was called with for the current block
block_end == calls[Len(calls)][2]

\* a step of the scanning loop that took the RULES- branch
rules_step == pc = "scan" /\ pc' = "scan" /\ Len(trail') = Len(trail) + 1 /\ step'.kind = "rules"

\* C23: the narrowing of r_end for a RULES- extent is temporary: a step of
\* the RULES- branch leaves r_end at the end row the block was called with,
\* leaves the column span, the merge index, the start row and the fallback
\* paragraphs as they were, keeps the sections collected before and appends
\* one rules section, and moves the cursor forward to the row after the
\* extent at most; the block is finished only when the cursor has passed the
\* end row it was called with, so the rows after the extent are scanned too.
C23_NarrowingRestored ==
  [][/\ rules_step =>
          /\ r_end' = r_end
          /\ r_end' = block_end
          /\ c1' = c1 /\ c2' = c2 /\ r_start' = r_start
          /\ merge_idx' = merge_idx /\ ws' = ws
          /\ block_free_paragraphs' = block_free_paragraphs
          /\ Len(sections') = Len(sections) + 1
          /\ SubSeq(sections', 1, Len(sections)) = sections
          /\ "paragraphs" \in DOMAIN sections'[Len(sections')]
          /\ step'.r_end <= r_end
          /\ r < r' /\ r' <= step'.r_end + 1
     /\ (pc = "scan" /\ pc' # "scan") => r_end = block_end /\ r = block_end + 1
    ]_vars

\* C23 witness: a RULES- extent that ended before the end of its block, and
\* a reward collector that took the rows after it up to the end of the block
C23_Witness ==
  /\ pc = "scan"
  /\ Len(trail) = 2
  /\ Len(sections) = 2
  /\ "paragraphs" \in DOMAIN sections[1]
  /\ trail[1].sections = 1
  /\ trail[1].r1 <= r_end
  /\ step.kind = "rewards"
  /\ step.r0 = trail[1].r1
  /\ sections[2].rewards # <<>>
  /\ r = r_end + 1
  /\ r_end = block_end

\* the regions whose marker sits below the marker of the region being parsed,
\* in columns of that region
later_regions ==
  {j \in 1..Len(regions) :
     /\ regions[j].row > regions[ri].row
     /\ regions[j].col_start <= regions[ri].col_end
     /\ regions[ri].col_start <= regions[j].col_end}

\* C26: a TITLE- cell gives a block in at most one page: also when two
\* REGION- markers with overlapping column spans sit at different rows, the
\* titles of a region are above every later region marker of its columns (a
\* title row belongs to the region whose marker is the nearest above it), and
\* no block's row range reaches the row of such a marker or a row below it.
C26_TitleInOnePage ==
  (pc \in {"title", "scan"}) =>
    \A j \in later_regions :
      /\ \A i \in 1..Len(titles) : titles[i][3] < regions[j].row
      /\ \A i \in 1..Len(calls) : calls[i][2] < regions[j].row

(***************************************************************************)
(* Properties of the collectors, checked under SpecCollect.                *)
(***************************************************************************)
\* the rows an iteration of the scanning loop went over
rows_of(it) == it.r0..(it.r1 - 1)

\* the number of sections before iteration k of the trail
sections_before(k) == IF k = 1 THEN 0 ELSE trail[k - 1].sections

\* the grid rows the content of a section was taken from, as far as the
\* section records them
source_rows(s) ==
  {s.rewards[k]._row : k \in 1..Len(s.rewards)}
  \cup (IF "table" \in DOMAIN s
        THEN UNION {{s.table.rows[k][n]._row : n \in 1..Len(s.table.rows[k])} :
                      k \in 1..Len(s.table.rows)}
        ELSE {})

\* C14: the block parser makes progress and terminates: every iteration of
\* the scanning loop that starts at row r0 - a collector, the fallback branch
\* or a blank row - leaves the cursor at a row r' with r0 < r' <= r_end + 1,
\* the fallback and blank branches at r0 + 1; the iterations go over
\* consecutive, pairwise disjoint row ranges that start at r_start, every
\* section is appended by one iteration and takes its content from the rows of
\* that iteration only; so the loop ends after at most one iteration per row
\* of the block, and it is never stuck: every row up to r_end has a branch.
C14_CursorAdvances ==
  (pc = "scan") =>
    /\ r \in r_start..(r_end + 1)
    /\ \A k \in 1..Len(trail) :
         /\ trail[k].r0 < trail[k].r1
         /\ trail[k].r1 <= r_end + 1
         /\ trail[k].r0 = (IF k = 1 THEN r_start ELSE trail[k - 1].r1)
         /\ trail[k].sections - sections_before(k) \in {0, 1}
         /\ trail[k].sections > sections_before(k) =>
              source_rows(sections[trail[k].sections]) \subseteq rows_of(trail[k])
    /\ \A k, l \in 1..Len(trail) : k # l => rows_of(trail[k]) \cap rows_of(trail[l]) = {}
    /\ trail # <<>> =>
         /\ trail[Len(trail)].r1 = r
         /\ trail[Len(trail)].sections = Len(sections)
         /\ step.r0 = trail[Len(trail)].r0
    /\ step.kind \in {"blank", "fallback"} => r = step.r0 + 1
    /\ step.kind \in {"table", "rules", "rewards"} => step.r0 < r /\ r <= r_end + 1
    /\ Len(trail) <= r - r_start
    /\ r <= r_end =>
         dispatch(ws, c1, c2, merge_idx, r) \in {"blank", "table", "rules", "rewards", "fallback"}

\* C14 witness: a block of four rows gone over by a table collector that took
\* the marker row and one data row, and a reward collector that took the rest
C14_Witness ==
  /\ pc = "scan"
  /\ r = r_end + 1
  /\ r_end = r_start + 3
  /\ Len(trail) = 2
  /\ trail[1].r1 = r_start + 2
  /\ Len(sections) = 2
  /\ "table" \in DOMAIN sections[1]
  /\ Len(sections[1].table.rows) = 1
  /\ Len(sections[2].rewards) = 2

\* the table the last iteration collected, and the number of its rows
last_table == last_section.table.rows

\* a row that is blank across the columns of a span
span_blank(row, span) == \A col \in span[1]..span[2] : text_at(ws, row, col) = <<>>

\* a row whose marker column starts with TITLE-, RANK- or RINK-
marker_row(row) == is_title_or_rank(text_at(ws, row, c1))

\* the rows the loop of the table collector got to: the emitted rows and the
\* row it stopped at
rows_reached == (step.r0 + 1)..(IF step.r0 + Len(last_table) + 1 <= r_end
                                THEN step.r0 + Len(last_table) + 1 ELSE r_end)

span_table(row, span) ==
  \E col \in span[1]..span[2] : startswith(text_at(ws, row, col), TABLE_)

\* the row after the emitted rows of the last table: where its loop stopped
stop_row == step.r0 + Len(last_table) + 1

\* C17: a TABLE- cell in the table span of a row after the marker row is an
\* end marker: the table stops at the first such row, the row is not among
\* the table's rows, and the collector returns the row after it, so the row
\* belongs to the iteration of this table and to no other; when the table
\* stops at a row of the block without a TABLE- cell in the span, the
\* collector returns that row.
C17_TableEndMarkerConsumed ==
  (pc = "scan" /\ step.kind = "table") =>
    /\ \A k \in 1..Len(last_table) : ~span_table(step.r0 + k, TableSpan(step.r0))
    /\ \A row \in (step.r0 + 1)..r_end :
         span_table(row, TableSpan(step.r0)) => stop_row <= row
    /\ (stop_row <= r_end /\ span_table(stop_row, TableSpan(step.r0))) =>
         /\ r = stop_row + 1
         /\ stop_row \in rows_of(trail[Len(trail)])
    /\ (stop_row <= r_end /\ ~span_table(stop_row, TableSpan(step.r0))) => r = stop_row
    /\ stop_row > r_end => r = r_end + 1

\* C17 witness: a table of one row ended by a TABLE- row, with a row of the
\* block left after the end marker
C17_Witness ==
  /\ pc = "scan"
  /\ step.kind = "table"
  /\ Len(last_table) = 1
  /\ last_table[1] # <<>>
  /\ span_table(stop_row, TableSpan(step.r0))
  /\ r = stop_row + 1
  /\ r <= r_end

\* the emitted cells of the last table that lie in the merge rectangle mr, as
\* (row index, cell index) pairs
cells_in(mr) ==
  {p \in UNION {{<<k, n>> : n \in 1..Len(last_table[k])} : k \in 1..Len(last_table)} :
     /\ mr[1] <= last_table[p[1]][p[2]]._row /\ last_table[p[1]][p[2]]._row <= mr[3]
     /\ mr[2] <= last_table[p[1]][p[2]]._col /\ last_table[p[1]][p[2]]._col <= mr[4]}

\* C18: the rows of a table stay aligned with the grid rows: the k-th entry of
\* 'rows' is built from grid row r0 + k, r0 the marker row, and the loop
\* stopped at the row after the last entry; every cell has _row = r0 + k and
\* is an unmerged cell or a merge origin, with rowspan and colspan the height
\* and width of its rectangle (1 and 1 when unmerged); a row whose cells in
\* the span are all merged children is appended as an empty list; a merge
\* rectangle contributes at most one cell to the whole table.
C18_TableRowsAligned ==
  (pc = "scan" /\ step.kind = "table") =>
    /\ r \in {stop_row, stop_row + 1}
    /\ \A k \in 1..Len(last_table) :
         /\ Len(last_table[k]) = Cardinality(own_columns(step.r0 + k, TableSpan(step.r0)))
         /\ own_columns(step.r0 + k, TableSpan(step.r0)) = {} => last_table[k] = <<>>
         /\ \A n \in 1..Len(last_table[k]) :
              /\ last_table[k][n]._row = step.r0 + k
              /\ origin_or_unmerged(last_table[k][n]._row, last_table[k][n]._col)
              /\ last_table[k][n].rowspan
                   = rect_of(merge_idx, step.r0 + k, last_table[k][n]._col)[3]
                     - rect_of(merge_idx, step.r0 + k, last_table[k][n]._col)[1] + 1
              /\ last_table[k][n].colspan
                   = rect_of(merge_idx, step.r0 + k, last_table[k][n]._col)[4]
                     - rect_of(merge_idx, step.r0 + k, last_table[k][n]._col)[2] + 1
              /\ <<step.r0 + k, last_table[k][n]._col>> \notin DOMAIN merge_idx =>
                   last_table[k][n].rowspan = 1 /\ last_table[k][n].colspan = 1
    /\ \A mr \in ws.merged : Cardinality(cells_in(mr)) <= 1

\* C18 witness: a table whose first row is the one cell of a merge of two rows
\* and two columns, and whose second row, all merged children, is empty
C18_Witness ==
  /\ pc = "scan"
  /\ step.kind = "table"
  /\ Len(last_table) >= 2
  /\ Len(last_table[1]) = 1
  /\ last_table[1][1].rowspan = 2
  /\ last_table[1][1].colspan = 2
  /\ last_table[1][1].value # <<>>
  /\ last_table[2] = <<>>

\* the text of the k-th column after the marker column, empty past the region
col_text(row, k) == IF c1 + k <= c2 THEN text_at(ws, row, c1 + k) ELSE <<>>

\* the non-empty texts of the content cells of a row, left to right
content_texts(row) ==
  SelectSeq([i \in 1..(c2 - c1) |-> text_at(ws, row, c1 + i)], LAMBDA v : v # <<>>)

\* the name of the item of a row: column marker+1, or the first non-empty
\* content cell
item_name(row) ==
  IF col_text(row, 1) # <<>> THEN col_text(row, 1)
  ELSE IF content_texts(row) # <<>> THEN content_texts(row)[1] ELSE <<>>

\* the description: column marker+3, or, when the name was replaced and the
\* description is empty, the non-empty content cell after the one the name took
item_desc(row) ==
  IF col_text(row, 1) = <<>> /\ col_text(row, 3) = <<>> /\ Len(content_texts(row)) >= 2
  THEN content_texts(row)[2] ELSE col_text(row, 3)

\* the items of the rows row..last, in row order: one for every row with a
\* non-empty name, image text or description
RECURSIVE items_of_rows(_, _)
items_of_rows(row, last) ==
  IF row > last THEN <<>>
  ELSE (IF item_name(row) # <<>> \/ col_text(row, 2) # <<>> \/ item_desc(row) # <<>>
        THEN <<[name |-> item_name(row), image |-> col_text(row, 2),
                desc |-> item_desc(row), _row |-> row,
                _expected |-> IF col_text(row, 2) # <<>> THEN col_text(row, 2)
                              ELSE item_name(row)]>>
        ELSE <<>>)
       \o items_of_rows(row + 1, last)

\* an item without its image column
item_view(it) ==
  [name |-> it.name, image |-> it.image, desc |-> it.desc, _row |-> it._row,
   _expected |-> it._expected]

\* C19: the reward collector yields, in grid row order, exactly one item for
\* every row it handles in which name, image text or description is
\* non-empty, and none for a row with all three empty; name, image text and
\* description are the columns marker+1, +2, +3, an empty name is replaced by
\* the first non-empty content cell of the row and then an empty description
\* by the next one; the expected image key is the image text when it is
\* non-empty and the name otherwise.
C19_OneItemPerRow ==
  (pc = "scan" /\ step.kind = "rewards") =>
    /\ [k \in 1..Len(last_section.rewards) |-> item_view(last_section.rewards[k])]
         = items_of_rows(step.r0, r - 1)
    /\ \A k \in 1..Len(last_section.rewards) :
         /\ k > 1 => last_section.rewards[k - 1]._row < last_section.rewards[k]._row
         /\ last_section.rewards[k]._expected
              = (IF last_section.rewards[k].image # <<>> THEN last_section.rewards[k].image
                 ELSE last_section.rewards[k].name)

\* C19 witness: a reward list of two rows: the marker row, all empty, gives no
\* item; the second row has an empty name column and gives the item named by
\* its image text and described by the next content cell
C19_Witness ==
  /\ pc = "scan"
  /\ step.kind = "rewards"
  /\ r = step.r0 + 2
  /\ content_texts(step.r0) = <<>>
  /\ col_text(step.r0 + 1, 1) = <<>>
  /\ col_text(step.r0 + 1, 3) = <<>>
  /\ Len(last_section.rewards) = 1
  /\ last_section.rewards[1].name = col_text(step.r0 + 1, 2)
  /\ last_section.rewards[1]._expected = col_text(step.r0 + 1, 2)
  /\ last_section.rewards[1].desc = col_text(step.r0 + 1, 4)
  /\ last_section.rewards[1].desc # <<>>

\* the horizontal alignment of the cell that (row, col) resolves to
alignment_at(row, col) == get_cell_info(ws, row, col, merge_idx).alignment

\* the content columns of a row whose cell gives a run: a non-empty text that
\* no cell to its left has
run_cols(row) ==
  {col \in (c1 + 1)..c2 :
     /\ text_at(ws, row, col) # <<>>
     /\ \A other \in (c1 + 1)..(col - 1) : text_at(ws, row, other) # text_at(ws, row, col)}

\* the run columns of a row whose cell is aligned 'center' or 'right'
aligned_cols(row) == {col \in run_cols(row) : alignment_at(row, col) \in {"center", "right"}}

\* the first non-default alignment of a row, left to right; 'left' without one
first_alignment(row) ==
  IF aligned_cols(row) = {} THEN "left"
  ELSE alignment_at(row, CHOOSE col \in aligned_cols(row) :
                           \A other \in aligned_cols(row) : col <= other)

\* C20: the alignment of a paragraph is the first non-default alignment among
\* the content cells of its row, left to right: after a 'center' or 'right'
\* cell no later cell of the row changes it, and a row without such a cell is
\* 'left'; for the paragraph of a fallback row, and for the paragraph of the
\* first row of a rules section.
C20_FirstAlignmentWins ==
  /\ (pc = "scan" /\ step.kind = "fallback" /\ run_cols(step.r0) # {}) =>
       block_free_paragraphs[Len(block_free_paragraphs)].align = first_alignment(step.r0)
  /\ (pc = "scan" /\ step.kind = "rules" /\ run_cols(step.r0) # {}) =>
       last_section.paragraphs[1].align = first_alignment(step.r0)

\* C24: every emitted table cell lies inside the column span of its region:
\* its source column is above col_start and at most col_end, also when the
\* TABLE- marker cell belongs to a merge rectangle that extends to the left of
\* col_start or to the right of col_end.
C24_TableCellsInsideRegion ==
  (pc = "scan" /\ step.kind = "table") =>
    \A k \in 1..Len(last_table) :
      \A n \in 1..Len(last_table[k]) :
        /\ regions[ri].col_start < last_table[k][n]._col
        /\ last_table[k][n]._col <= regions[ri].col_end

\* the reward items of the pages emitted so far
output_items ==
  UNION {UNION {UNION {{pages[p].blocks[b].sections[i].rewards[k] :
                          k \in 1..Len(pages[p].blocks[b].sections[i].rewards)} :
                       i \in 1..Len(pages[p].blocks[b].sections)} :
                b \in 1..Len(pages[p].blocks)} :
         p \in 1..Len(pages)}

\* C25: every reward item has a non-empty name and a non-empty expected image
\* key: the row of an item the reward collector emits has a non-empty content
\* cell, the item's name is the text of the column after the marker column
\* or, when that is empty, the first non-empty content text of the row, and
\* so the name and the key 'image text or name' are not empty; the same holds
\* of the items of the pages.
C25_ItemsHaveNameAndKey ==
  /\ (pc = "scan" /\ step.kind = "rewards") =>
       \A k \in 1..Len(last_section.rewards) :
         /\ content_texts(last_section.rewards[k]._row) # <<>>
         /\ last_section.rewards[k].name =
              (IF col_text(last_section.rewards[k]._row, 1) # <<>>
               THEN col_text(last_section.rewards[k]._row, 1)
               ELSE content_texts(last_section.rewards[k]._row)[1])
         /\ last_section.rewards[k].name # <<>>
         /\ last_section.rewards[k]._expected # <<>>
  /\ \A it \in output_items : it.name # <<>> /\ it._expected # <<>>

\* C25 witness: a page with an item whose name column and image column are
\* empty: its name, and so its key, is the first non-empty content text
C25_Witness ==
  /\ pc = "done"
  /\ \E it \in output_items :
       /\ col_text(it._row, 1) = <<>>
       /\ col_text(it._row, 2) = <<>>
       /\ it.image = <<>>
       /\ it.name = content_texts(it._row)[1]
       /\ it._expected = it.name

(***************************************************************************)
(* Properties of the page direction, checked under SpecRegion.             *)
(***************************************************************************)
\* whether a region code has the token tok somewhere, letter case apart
has_token(code, tok) ==
  \E i \in 1..Len(code) :
    /\ i + Len(tok) - 1 <= Len(code)
    /\ lower(SubSeq(code, i, i + Len(tok) - 1)) = lower(tok)

\* C11: the direction of a page is 'rtl' if and only if its region code,
\* letter case apart, contains one of the tokens of RTL_REGIONS, and 'ltr'
\* otherwise, the empty code included; the code MECA gives 'rtl' and the code
\* US gives 'ltr'.
C11_DirectionFromRegionCode ==
  \A i \in 1..Len(pages) :
    /\ pages[i].direction \in {"rtl", "ltr"}
    /\ pages[i].direction = "rtl" <=> \E tok \in RTL_REGIONS : has_token(pages[i].region, tok)
    /\ pages[i].region = <<>> => pages[i].direction = "ltr"
    /\ pages[i].region = <<"M", "E", "C", "A">> => pages[i].direction = "rtl"
    /\ pages[i].region = <<"U", "S">> => pages[i].direction = "ltr"

\* C11 witness: the page of the code Usa, which holds the token SA in lower
\* case only, is 'rtl'
C11_Witness ==
  /\ pc = "done"
  /\ Len(pages) = 1
  /\ pages[1].region = <<"U", "s", "a">>
  /\ pages[1].direction = "rtl"

====
